---- MODULE Spec2Model ----
(***************************************************************************)
(* A model of the tile fetcher of twms (src/twms/fetchers.py): the file    *)
(* cache TileFile, the retrying HTTP session, and the two per-layer fetch  *)
(* workers TileFetcher.tms and TileFetcher.tms_google_sat.                 *)
(*                                                                         *)
(* One behaviour follows one TileFetcher (one layer) and the cache         *)
(* directory of that layer.  Every fetch draws what the upstream does      *)
(* (transport failures, HTTP status, body) from small sets.                *)
(***************************************************************************)
EXTENDS Integers, Sequences, FiniteSets, TLC

VARIABLES
    layer_id,    \* the layer this TileFetcher was built for (TileFetcher.__init__)
    remote_url,  \* self.layer["remote_url"]: "absent" or the URL template
    cache,       \* the files of the layer's cache directory, per tile
    now,         \* time.time()
    last,        \* what the most recent operation was given and what it did
    tiles_cache,      \* the engine's files under config.tiles_cache (twms.py)
    cached_objs,      \* ImageryHandler.cached_objs: tiles kept in RAM
    cached_hist_list, \* ImageryHandler.cached_hist_list: their insertion order
    fetchers_pool,    \* ImageryHandler.fetchers_pool: the layer whose fetcher it holds
    threads,          \* the request threads of ThreadingHTTPServer: where each is, what it holds
    file_blocks       \* the blocks of one tile file as the filesystem holds them

vars == <<layer_id, remote_url, cache, now, last, tiles_cache, cached_objs,
          cached_hist_list, fetchers_pool, threads, file_blocks>>

\* The engine's state, which the fetcher on its own never touches.
engine_vars == <<tiles_cache, cached_objs, cached_hist_list, fetchers_pool, threads,
                 file_blocks>>

\* No request is being served, and the tile file of the block-level view is
\* not there.
NoThreads == <<>>
NoBlocks == [exists |-> FALSE, blocks |-> <<>>, tne |-> FALSE]

\* ImageryHandler.__init__: nothing in RAM; a cache directory with no file.
EngineIdle ==
    /\ tiles_cache = [files |-> {}, dirs |-> {}]
    /\ cached_objs = {}
    /\ cached_hist_list = <<>>
    /\ fetchers_pool = ""
    /\ threads = NoThreads
    /\ file_blocks = NoBlocks

-----------------------------------------------------------------------------
(* Bounds of the model *)

\* The clock runs from 0 to MaxTime.
MaxTime == 4
\* cache_ttl of the layers that set one (a month in config.py), in clock units.
CacheTtl == 1
\* The Google JS API announces a version in 1..MaxVersion.
MaxVersion == 1

(* Program constants *)

\* retry_opener(tries=3, delay=3, backoff=2)
tries == 3
delay == 3
backoff == 2

-----------------------------------------------------------------------------
(* Bytes and images *)

\* A byte string: its image format (or none), the picture it encodes, whether
\* the stream is complete, and which software wrote it.
Bytes(fmt, px, whole, sw) == [fmt |-> fmt, px |-> px, whole |-> whole, sw |-> sw]

EmptyBytes == Bytes("", 0, TRUE, "upstream")               \* b""
JpegA      == Bytes("image/jpeg", 1, TRUE, "upstream")     \* a JPEG tile
PngA       == Bytes("image/png", 1, TRUE, "upstream")      \* a PNG tile
JpegDead   == Bytes("image/jpeg", 0, TRUE, "upstream")     \* the provider's dummy tile
PngDead    == Bytes("image/png", 0, TRUE, "upstream")
Html       == Bytes("text/html", 0, TRUE, "upstream")      \* an error page
JpegTrunc  == Bytes("image/jpeg", 1, FALSE, "upstream")    \* a JPEG cut short
PngTrunc   == Bytes("image/png", 1, FALSE, "upstream")

\* No file at a path.
NoFile == Bytes("nofile", 0, FALSE, "nobody")

\* What an upstream may answer with.
Bodies == {EmptyBytes, JpegA, PngA, JpegDead, Html, JpegTrunc}

ImageFormats == {"image/jpeg", "image/png"}

\* hashlib.md5(resp_bytes).hexdigest(): a digest of every field of the bytes.
md5(b) == <<"md5", b.fmt, b.px, b.whole, b.sw>>

\* blob=None, the default argument of TileFile.set()
PyNone == Bytes("None", 0, TRUE, "nobody")

\* Python truthiness of "blob": None and b"" are false.
truthy(b) == b \notin {EmptyBytes, PyNone}

\* A decoded picture and the format it was read from.
Image(px, fmt) == [px |-> px, fmt |-> fmt]
NoImage == Image(0, "")

\* PIL.Image.open(buf) followed by im.load(): open identifies the format from
\* the header (UnidentifiedImageError otherwise), load decodes the whole
\* stream (OSError on a truncated one).
PIL_open(b) ==
    IF b.fmt \notin ImageFormats
    THEN [ok |-> FALSE, exc |-> "UnidentifiedImageError", im |-> NoImage]
    ELSE IF ~b.whole
    THEN [ok |-> FALSE, exc |-> "OSError", im |-> NoImage]
    ELSE [ok |-> TRUE, exc |-> "", im |-> Image(b.px, b.fmt)]

\* im_convert(im, mimetype): the picture re-encoded in the requested format,
\* tagged with the server's own EXIF Software entry.
im_convert(im, mimetype) == Bytes(mimetype, im.px, TRUE, "twms")

-----------------------------------------------------------------------------
(* The layer table (twms.config.layers) *)

\* An optional integer is the set of its values: {} is None.
\* "dead_tile" is [present, http_status, md5]: an absent key is an empty set.
NoDeadTile == [present |-> FALSE, http_status |-> {}, md5 |-> {}]

\* Four layers that between them take every branch of the fetch workers; zoom
\* levels are scaled down so that tiles below, inside and above the range exist.
\*   yamapng          config.py: PNG storage, cache_ttl of a month
\*   dzzby_orthophoto config.py: dead_tile with http_status 502 and an md5 set
\*   s3tiles          a layer written as layer_defaults documents "dead_tile",
\*                    with the status an object store gives for a missing key
\*   sat              config.py, with its '"fetch": "tms_google_sat"' line enabled
layers == [
    yamapng |-> [fetch |-> "tms", mimetype |-> "image/png",
                 cache_ttl |-> {CacheTtl}, dead_tile |-> NoDeadTile,
                 min_zoom |-> 1, max_zoom |-> 1, remote_url |-> TRUE],
    dzzby_orthophoto |-> [fetch |-> "tms", mimetype |-> "image/jpeg",
                 cache_ttl |-> {},
                 dead_tile |-> [present |-> TRUE, http_status |-> {502},
                                md5 |-> {md5(JpegDead)}],
                 min_zoom |-> 1, max_zoom |-> 1, remote_url |-> TRUE],
    s3tiles |-> [fetch |-> "tms", mimetype |-> "image/jpeg",
                 cache_ttl |-> {CacheTtl},
                 dead_tile |-> [present |-> TRUE, http_status |-> {403},
                                md5 |-> {md5(JpegDead)}],
                 min_zoom |-> 1, max_zoom |-> 1, remote_url |-> TRUE],
    sat |-> [fetch |-> "tms_google_sat", mimetype |-> "image/jpeg",
                 cache_ttl |-> {}, dead_tile |-> NoDeadTile,
                 min_zoom |-> 1, max_zoom |-> 1, remote_url |-> TRUE]
]

LayerIds == DOMAIN layers

\* The tiles requested in the model: one below the zoom range, one inside it,
\* one above it.
Tiles == {<<0, 0, 0>>, <<1, 1, 0>>, <<2, 1, 3>>}

-----------------------------------------------------------------------------
(* TileFile: the files of one tile *)

\* The image file (NoFile when missing) and the TNE marker of one tile, each
\* with its st_mtime.
TileFile(img, img_mtime, tne, tne_mtime) ==
    [img |-> img, img_mtime |-> img_mtime, tne |-> tne, tne_mtime |-> tne_mtime]

Absent == TileFile(NoFile, 0, FALSE, 0)

\* TileFile.set(blob) without the unlink of the marker.
TileFile_set_keeps_tne(tile, blob, t) ==
    IF truthy(blob)
    THEN TileFile(blob, t, tile.tne, tile.tne_mtime)
    ELSE TileFile(tile.img, tile.img_mtime, TRUE, t)

\* TileFile.set(blob) with a marker that replaces the image.
TileFile_set_tne_drops_image(tile, blob, t) ==
    IF truthy(blob)
    THEN TileFile(blob, t, FALSE, 0)
    ELSE TileFile(NoFile, 0, TRUE, t)

\* TileFile.set(blob)
TileFile_set(tile, blob, t) ==
    IF truthy(blob)
    THEN \* write_bytes(blob); path_tne.unlink(missing_ok=True)
         TileFile(blob, t, FALSE, 0)
    ELSE \* path_tne.touch()
         TileFile(tile.img, tile.img_mtime, TRUE, t)

\* TileFile.delete()
TileFile_delete(tile) == Absent

\* TileFile.exists()
exists(tile) == tile.img # NoFile

\* An expiry test under which a layer without cache_ttl expires at once.
ttl_reached_nil_expires(ttl, t, mtime) ==
    ttl = {} \/ \E n \in ttl : n # 0 /\ n < t - mtime

\* "self.ttl and self.ttl < (time.time() - st_mtime)"
ttl_reached(ttl, t, mtime) == \E n \in ttl : n # 0 /\ n < t - mtime

\* TileFile.needs_fetch()
needs_fetch(tile, ttl, t) ==
    IF tile.tne
    THEN ttl_reached(ttl, t, tile.tne_mtime)
    ELSE IF exists(tile)
    THEN ttl_reached(ttl, t, tile.img_mtime)
    ELSE TRUE

-----------------------------------------------------------------------------
(* The HTTP session *)

\* What the upstream does with one request: the first `fails` attempts end in
\* the transport exception `exc`, a later attempt is answered with `status`
\* and `body`.
Statuses == {200, 403, 404, 500, 502}
TransportErrors == {"URLError", "TimeoutError"}
Net(fails, exc, status, body) ==
    [fails |-> fails, exc |-> exc, status |-> status, body |-> body]

\* The upstream's behaviours for a tile request: every status with every body
\* at once, or an answer after 1..tries failed attempts, or tries + 1 failures.
NetInputs ==
    {Net(0, "URLError", st, b) : st \in Statuses, b \in Bodies}
        \cup {Net(n, e, 200, JpegA) : n \in 1 .. tries + 1, e \in TransportErrors}

\* opener_director.open at attempt i: a response, an HTTPError (status >= 400)
\* or a transport exception.
opener_open(net, i) ==
    IF i <= net.fails
    THEN [kind |-> "raise", exc |-> net.exc, status |-> 0, body |-> EmptyBytes]
    ELSE IF net.status >= 400
    THEN [kind |-> "raise", exc |-> "HTTPError", status |-> net.status, body |-> net.body]
    ELSE [kind |-> "return", exc |-> "", status |-> net.status, body |-> net.body]

\* A get that lets the HTTPError go on instead of returning it.
HttpSessionDirector_get_raises(net, i) == opener_open(net, i)

\* HttpSessionDirector.get without its decorator: an HTTPError is returned as
\* the response, any other exception goes on.
HttpSessionDirector_get(net, i) ==
    LET r == opener_open(net, i)
    IN  IF r.kind = "raise" /\ r.exc = "HTTPError"
        THEN [r EXCEPT !.kind = "return", !.exc = ""]
        ELSE r

\* The loop of retry_opener's wrapper, at attempt i with mtries retries left.
RECURSIVE wrapper(_, _, _, _, _)
wrapper(net, i, mtries, mdelay, delays) ==
    LET r == HttpSessionDirector_get(net, i)
    IN  IF r.kind = "return"
        THEN [kind |-> "return", exc |-> "", status |-> r.status, body |-> r.body,
              attempts |-> i, delays |-> delays]
        ELSE IF r.exc = "HTTPError"
        THEN [kind |-> "raise", exc |-> r.exc, status |-> r.status, body |-> r.body,
              attempts |-> i, delays |-> delays]
        ELSE IF mtries = 0
        THEN [kind |-> "raise", exc |-> r.exc, status |-> 0, body |-> EmptyBytes,
              attempts |-> i, delays |-> delays]
        ELSE wrapper(net, i + 1, mtries - 1, mdelay * backoff, Append(delays, mdelay))

\* A decorated get that gives up at the first transport error.
http_session_get_no_retry(net) == wrapper(net, 1, 0, delay, <<>>)

\* http_session.get(url): HttpSessionDirector.get under @retry_opener()
http_session_get(net) == wrapper(net, 1, tries, delay, <<>>)

\* A call that issued no request.
NoCall == [kind |-> "none", exc |-> "", status |-> 0, body |-> EmptyBytes,
           attempts |-> 0, delays |-> <<>>]

-----------------------------------------------------------------------------
(* TileFetcher *)

\* What a worker hands back: None, an image, or an exception that leaves it.
RetNone == [kind |-> "None", im |-> NoImage, exc |-> ""]
RetImage(im) == [kind |-> "image", im |-> im, exc |-> ""]
Raise(exc) == [kind |-> "raise", im |-> NoImage, exc |-> exc]

\* TileFile.set was not called.
NotCalled == Bytes("notcalled", 0, FALSE, "nobody")

\* The outcome of a worker: the returned value, the tile's files afterwards,
\* the upstream call made for the tile, and the argument given to TileFile.set.
Out(ret, tile, call, set_blob) ==
    [ret |-> ret, tile |-> tile, call |-> call, set_blob |-> set_blob]

\* tms, "If fetching failed": the cached image when it exists and can be read.
from_cache(tile) ==
    IF exists(tile)
    THEN LET o == PIL_open(tile.img)
         IN  IF o.ok THEN RetImage(o.im) ELSE RetNone   \* except OSError
    ELSE RetNone

\* Dead-tile criteria that never match.
dead_status_never(L, resp) == FALSE
dead_md5_never(L, resp) == FALSE
\* A status criterion that takes every 5xx answer for a dead tile.
dead_status_any_5xx(L, resp) == resp.status >= 500

\* tms: "http_status" in dead_tile and remote_resp.status == dead_tile["http_status"]
dead_status(L, resp) == L.dead_tile.present /\ resp.status \in L.dead_tile.http_status

\* tms: "md5" in dead_tile and resp_md5 in dead_tile["md5"]
dead_md5(L, resp) == L.dead_tile.present /\ md5(resp.body) \in L.dead_tile.md5

\* tms, the body of "with self.http_session.get(remote) as remote_resp".
tile_response(L, tile, t, resp) ==
    IF resp.status = 404
    THEN Out(RetNone, TileFile_set(tile, PyNone, t), resp, PyNone)
    ELSE IF resp.status = 403
    THEN Out(RetNone, tile, resp, NotCalled)
    ELSE IF dead_status(L, resp)
    THEN Out(RetNone, TileFile_set(tile, PyNone, t), resp, PyNone)
    ELSE IF dead_md5(L, resp)
    THEN Out(RetNone, TileFile_set(tile, PyNone, t), resp, PyNone)
    ELSE LET o == PIL_open(resp.body)
         IN  IF o.ok
             THEN LET blob == IF o.im.fmt = L.mimetype
                              THEN resp.body
                              ELSE im_convert(o.im, L.mimetype)
                  IN  Out(RetImage(o.im), TileFile_set(tile, blob, t), resp, blob)
             ELSE IF o.exc = "UnidentifiedImageError"
             THEN Out(from_cache(tile), tile, resp, NotCalled)
             ELSE Out(Raise(o.exc), tile, resp, NotCalled)

\* A zoom test that forgets the lower limit.
zoom_limit_no_min(L, z) == z > L.max_zoom

\* tms: z < self.layer["min_zoom"] or z > self.layer["max_zoom"]
zoom_limit(L, z) == z < L.min_zoom \/ z > L.max_zoom

\* TileFetcher.tms(z, x, y) on a layer L whose "remote_url" key is present iff
\* has_url, at time t, with the upstream behaving as net.
tms(L, has_url, tile, t, z, net) ==
    IF zoom_limit(L, z)
    THEN Out(RetNone, tile, NoCall, NotCalled)
    ELSE IF has_url /\ needs_fetch(tile, L.cache_ttl, t)
    THEN LET call == http_session_get(net)
         IN  IF call.kind = "return"
             THEN tile_response(L, tile, t, call)
             ELSE IF call.exc \in {"URLError", "HTTPError"}   \* except urllib.error.URLError
             THEN Out(from_cache(tile), tile, call, NotCalled)
             ELSE Out(Raise(call.exc), tile, call, NotCalled)
    ELSE Out(from_cache(tile), tile, NoCall, NotCalled)

\* self.layer["remote_url"]: absent, the template of config.py, or the
\* template built from a discovered version.
Url(kind, ver) == [kind |-> kind, ver |-> ver]
NoUrl == Url("absent", 0)

\* The answers of https://maps.googleapis.com/maps/api/js: the text names
\* version khms (0: the pattern is not in the text).
JsBodies == {[khms |-> v] : v \in 0 .. MaxVersion}
DiscInputs ==
    {Net(0, "URLError", st, js) : st \in {200, 403}, js \in JsBodies}
        \cup {Net(1, "URLError", 200, [khms |-> 1])}
        \cup {Net(tries + 1, e, 200, [khms |-> 1]) : e \in TransportErrors}

\* re.search(r"https://khms\d+.googleapis\.com/kh\?v=(\d+)", text)
re_search(text) ==
    IF text.khms = 0 THEN [match |-> FALSE, group1 |-> 0]
    ELSE [match |-> TRUE, group1 |-> text.khms]

\* tms_google_sat, the block under 'if "remote_url" not in self.layer': the
\* discovery call, the exception that leaves the block ("" when none does) and
\* self.layer["remote_url"] afterwards.
discover(url, disc) ==
    IF url # NoUrl
    THEN [call |-> NoCall, exc |-> "", url |-> url]
    ELSE LET c == http_session_get(disc)
             m == re_search(c.body)
         IN  IF c.kind = "return"
             THEN IF m.match
                  THEN [call |-> c, exc |-> "", url |-> Url("google", m.group1)]
                  ELSE [call |-> c, exc |-> "ValueError", url |-> url]
             ELSE IF c.exc \in {"URLError", "HTTPError"}   \* except urllib.error.URLError: pass
             THEN [call |-> c, exc |-> "", url |-> url]
             ELSE [call |-> c, exc |-> c.exc, url |-> url]

\* A worker that never drops the template.
after_discover_keeps(d, o) == [out |-> o, disc |-> d.call, url |-> d.url]

\* tms_google_sat after the discovery block: im = self.tms(z, x, y), then the
\* template is dropped when no image came back.
after_discover(d, o) ==
    IF o.ret.kind = "raise"
    THEN [out |-> o, disc |-> d.call, url |-> d.url]
    ELSE IF d.url # NoUrl /\ o.ret.kind = "None"
    THEN [out |-> o, disc |-> d.call, url |-> NoUrl]     \* del self.layer["remote_url"]
    ELSE [out |-> o, disc |-> d.call, url |-> d.url]

\* TileFetcher.tms_google_sat(z, x, y): the outcome of tms, the discovery call
\* and self.layer["remote_url"] afterwards.
tms_google_sat(L, url, tile, t, z, disc, net) ==
    LET d == discover(url, disc)
    IN  IF d.exc # ""
        THEN [out |-> Out(Raise(d.exc), tile, NoCall, NotCalled), disc |-> d.call, url |-> d.url]
        ELSE after_discover(d, tms(L, d.url # NoUrl, tile, t, z, net))

\* TileFetcher.fetch(z, x, y): the worker chosen in __init__, run on the pool;
\* result() hands on what the worker returned or raised.
fetch(L, url, tile, t, z, disc, net) ==
    IF L.fetch = "tms"
    THEN [out |-> tms(L, url # NoUrl, tile, t, z, net), disc |-> NoCall, url |-> url]
    ELSE tms_google_sat(L, url, tile, t, z, disc, net)

-----------------------------------------------------------------------------
(* The state machine *)

layer == layers[layer_id]

\* Nothing has been fetched since the last tick.
Idle == [op |-> "idle", key |-> <<0, 0, 0>>, pre |-> Absent, url |-> NoUrl,
         ret |-> RetNone, call |-> NoCall, disc |-> NoCall, set_blob |-> NotCalled]

\* What the cache directory may hold for a tile when the server starts: nothing,
\* a readable image, an image that cannot be read, or a TNE marker.
StartFiles(L) ==
    { Absent,
      TileFile(Bytes(L.mimetype, 1, TRUE, "upstream"), 0, FALSE, 0),
      TileFile(Bytes(L.mimetype, 1, FALSE, "upstream"), 0, FALSE, 0),
      TileFile(NoFile, 0, TRUE, 0) }

Init ==
    /\ layer_id \in LayerIds
    /\ remote_url = IF layers[layer_id].remote_url THEN Url("config", 0) ELSE NoUrl
    /\ cache \in [Tiles -> StartFiles(layers[layer_id])]
    /\ cache[<<0, 0, 0>>] = TileFile(Bytes(layers[layer_id].mimetype, 1, TRUE, "upstream"), 0, FALSE, 0)
    /\ cache[<<2, 1, 3>>] = Absent
    /\ now = 0
    /\ last = Idle
    /\ EngineIdle

\* The discovery input of a call that makes no discovery request.
NoDisc == Net(0, "URLError", 200, [khms |-> 1])

\* A request thread calls fetch(z, x, y).  An input that the call does not
\* consume is drawn once.
Fetch(key) ==
    \E net \in NetInputs :
    \E disc \in IF layer.fetch = "tms" \/ remote_url # NoUrl THEN {NoDisc} ELSE DiscInputs :
    \E r \in {fetch(layer, remote_url, cache[key], now, key[1], disc, net)} :
            /\ r.out.call = NoCall => net = Net(0, "URLError", 200, JpegA)
            /\ cache' = [cache EXCEPT ![key] = r.out.tile]
            /\ remote_url' = r.url
            /\ last' = [op |-> "fetch", key |-> key, pre |-> cache[key],
                        url |-> remote_url, ret |-> r.out.ret, call |-> r.out.call,
                        disc |-> r.disc, set_blob |-> r.out.set_blob]
            /\ UNCHANGED <<layer_id, now, engine_vars>>

\* Time passes.
Tick ==
    /\ now < MaxTime
    /\ now' = now + 1
    /\ last' = Idle
    /\ UNCHANGED <<layer_id, remote_url, cache, engine_vars>>

Next ==
    \/ \E key \in Tiles : Fetch(key)
    \/ Tick

Spec == Init /\ [][Next]_vars

-----------------------------------------------------------------------------
(* Vocabulary of the properties: what the most recent fetch saw and did *)

Fetched == last.op = "fetch"
\* The tile request was answered with an HTTP status.
Answered == Fetched /\ last.call.kind = "return"
\* The tile request failed with a transport error through every retry.
TransportFailed == Fetched /\ last.call.kind = "raise"
\* The files of the fetched tile before and after the call.
pre == last.pre
post == cache[last.key]
\* The call touched the TNE marker / wrote the image file.
TneWritten == Fetched /\ post.tne /\ (~pre.tne \/ post.tne_mtime > pre.tne_mtime)
ImageWritten == Fetched /\ (post.img # pre.img \/ post.img_mtime # pre.img_mtime)
ReturnedNone == last.ret.kind = "None"
\* The answer matches the layer's dead-tile criteria.
DeadStatus == layer.dead_tile.present /\ last.call.status \in layer.dead_tile.http_status
DeadMd5 == layer.dead_tile.present /\ md5(last.call.body) \in layer.dead_tile.md5
\* The body reached the image decoder and the decoder refused it.
Undecodable ==
    /\ Answered
    /\ last.call.status \notin {403, 404}
    /\ ~DeadStatus /\ ~DeadMd5
    /\ ~PIL_open(last.call.body).ok
\* The TNE marker found by the call is still within the layer's cache_ttl.
TneFresh == pre.tne /\ \A n \in layer.cache_ttl : now - pre.tne_mtime <= n

-----------------------------------------------------------------------------
(* C1 *)

\* C1 as stated: an answer with status 404, or with the layer's
\* dead_tile.http_status, makes tms write the TNE marker, write no image and
\* return None.
C1_AsStated ==
    (Answered /\ (last.call.status = 404 \/ DeadStatus))
        => (TneWritten /\ ~ImageWritten /\ ReturnedNone)

\* C1 amended: an answer with status 404, or with the layer's
\* dead_tile.http_status when that status is not 403, makes tms write the TNE
\* marker, write no image and return None (403 is classified before the
\* dead-tile criteria and never marks the tile).
C1_NotFoundOrDeadStatusMarksTne ==
    (Answered /\ (last.call.status = 404 \/ (DeadStatus /\ last.call.status # 403)))
        => (TneWritten /\ ~ImageWritten /\ ReturnedNone)

\* A fetch answered with the dead-tile status 502 has marked the tile.
C1_Witness ==
    Answered /\ DeadStatus /\ last.call.status = 502 /\ TneWritten /\ ReturnedNone

(* C2 *)

\* C2 as stated: any answer whose body md5 is in dead_tile.md5 makes the fetch
\* write the TNE marker, write no image and return None.
C2_AsStated ==
    (Answered /\ DeadMd5) => (TneWritten /\ ~ImageWritten /\ ReturnedNone)

\* C2 amended: any answer with a status other than 403 whose body md5 is in
\* dead_tile.md5 makes the fetch write the TNE marker, write no image and
\* return None.
C2_DeadMd5MarksTne ==
    (Answered /\ DeadMd5 /\ last.call.status # 403)
        => (TneWritten /\ ~ImageWritten /\ ReturnedNone)

\* A 200 answer carrying the dead tile has marked the tile.
C2_Witness ==
    Answered /\ DeadMd5 /\ last.call.status = 200 /\ TneWritten /\ ~exists(post)

(* C3 *)

\* C3: a fetch touches the TNE marker only when the tile request was answered
\* with status 404, with dead_tile.http_status, or with a body whose md5 is in
\* dead_tile.md5; a marker that was not there before the call is there after
\* it only in these cases.
C3_TneOnlyWhenGoneOrDead ==
    /\ TneWritten => (Answered /\ (last.call.status = 404 \/ DeadStatus \/ DeadMd5))
    /\ (Fetched /\ post.tne /\ ~pre.tne)
           => (Answered /\ (last.call.status = 404 \/ DeadStatus \/ DeadMd5))
    /\ (Fetched /\ last.set_blob = PyNone)
           => (Answered /\ (last.call.status = 404 \/ DeadStatus \/ DeadMd5))

\* An empty 200 answer for a tile that is not in the cache has left no marker.
C3_Witness ==
    /\ Answered /\ last.call.status = 200 /\ last.call.body = EmptyBytes
    /\ pre = Absent /\ ~post.tne

(* C4 *)

\* C4 as stated: an answer with a non-2xx status other than 404, 403 and
\* dead_tile.http_status makes tms return None and write neither an image nor
\* a TNE marker, whatever the body is.
C4_AsStated ==
    (Answered /\ last.call.status \notin 200 .. 299
              /\ last.call.status \notin {403, 404} /\ ~DeadStatus)
        => (ReturnedNone /\ ~ImageWritten /\ ~TneWritten)

(* C5 *)

\* C5 as stated: when the issued tile request fails, by a transport error that
\* lasts through all retries or by a body that cannot be decoded as an image,
\* tms returns None.
C5_AsStated == (TransportFailed \/ Undecodable) => ReturnedNone

(* C6 *)

\* C6 as stated: fetch never raises to its caller.
C6_AsStated == Fetched => last.ret.kind # "raise"

(* C7 *)

\* C7 as stated: a fetch that finds the tile's TNE marker within cache_ttl (or
\* at any age when cache_ttl is nil) issues no upstream HTTP request, neither
\* for the tile nor for anything else.
C7_AsStated ==
    (Fetched /\ TneFresh) => (last.call.attempts = 0 /\ last.disc.attempts = 0)

(* C8 *)

\* C8: after TileFile.set(blob) with image bytes, the image file holds exactly
\* those bytes and the TNE marker does not exist.
C8_ImageWriteRemovesTne ==
    (Fetched /\ truthy(last.set_blob) /\ last.set_blob # NotCalled)
        => (post.img = last.set_blob /\ post.img_mtime = now /\ ~post.tne)

\* set(blob) was called on a tile that had a TNE marker.
C8_Witness ==
    Fetched /\ truthy(last.set_blob) /\ last.set_blob # NotCalled /\ pre.tne

(* C9 *)

\* C9 as stated: no key ever has both the image file and the TNE marker.
C9_AsStated == \A key \in Tiles : ~(exists(cache[key]) /\ cache[key].tne)

\* C9 amended: a key has both the image file and the TNE marker only on a
\* layer with a cache_ttl and only with a marker newer than the image (the
\* marker was written when the refetch of the stale image was answered 404 or
\* with a dead tile); an image write never leaves a marker behind.
C9_BothOnlyAfterStaleRefetch ==
    \A key \in Tiles :
        (exists(cache[key]) /\ cache[key].tne)
            => (layer.cache_ttl # {} /\ cache[key].tne_mtime > cache[key].img_mtime)

\* Some key has both files.
C9_Witness == \E key \in Tiles : exists(cache[key]) /\ cache[key].tne

(* C10 *)

\* C10: TileFile.set() without bytes creates the TNE marker and leaves the
\* image file as it was, also when the marker was already there.
C10_TneWriteKeepsImage ==
    (Fetched /\ last.set_blob = PyNone)
        => (post.tne /\ post.tne_mtime = now
            /\ post.img = pre.img /\ post.img_mtime = pre.img_mtime)

\* set() was called again on a tile that already had a marker and an image.
C10_Witness ==
    Fetched /\ last.set_blob = PyNone /\ pre.tne /\ exists(pre) /\ post.img = pre.img

-----------------------------------------------------------------------------
(* TileFile on its own: the methods of one tile's TileFile, called in any *)
(* order while the clock runs.                                             *)

\* The largest ttl a TileFile is constructed with.
MaxTtl == 2

\* The "ttl" argument of TileFile.__init__: None, or a number of seconds.
TtlValues == {{}} \cup {{n} : n \in 0 .. MaxTtl}

\* The tile whose files the calls work on.
TheKey == <<1, 1, 0>>

InitTileFile ==
    /\ layer_id = "yamapng"
    /\ remote_url = Url("config", 0)
    /\ cache = [key \in Tiles |-> Absent]
    /\ now = 0
    /\ last = Idle
    /\ EngineIdle

\* tile.set(blob) with image bytes, or tile.set() / tile.set(b"").
SetCall ==
    \E blob \in {PngA, PngDead, PyNone, EmptyBytes} :
        /\ cache' = [cache EXCEPT ![TheKey] = TileFile_set(cache[TheKey], blob, now)]
        /\ last' = [op |-> "set", key |-> TheKey, pre |-> cache[TheKey], blob |-> blob]
        /\ UNCHANGED <<layer_id, remote_url, now, engine_vars>>

\* tile.delete()
DeleteCall ==
    /\ cache' = [cache EXCEPT ![TheKey] = TileFile_delete(cache[TheKey])]
    /\ last' = [op |-> "delete", key |-> TheKey, pre |-> cache[TheKey]]
    /\ UNCHANGED <<layer_id, remote_url, now, engine_vars>>

\* TileFile(..., ttl=ttl).needs_fetch()
NeedsFetchCall ==
    \E ttl \in TtlValues :
        /\ last' = [op |-> "needs_fetch", key |-> TheKey, pre |-> cache[TheKey],
                    ttl |-> ttl, ret |-> needs_fetch(cache[TheKey], ttl, now)]
        /\ UNCHANGED <<layer_id, remote_url, cache, now, engine_vars>>

NextTileFile == SetCall \/ DeleteCall \/ NeedsFetchCall \/ Tick

SpecTileFile == InitTileFile /\ [][NextTileFile]_vars

(* C11 *)

\* The age of the entry needs_fetch looks at: the TNE marker when there is
\* one, the image otherwise.
EntryAge == IF pre.tne THEN now - pre.tne_mtime ELSE now - pre.img_mtime

\* C11 as stated: needs_fetch() is true iff neither the image nor the TNE
\* marker exists, or the entry that exists is older than ttl; with ttl nil it is
\* false whenever an entry exists; with ttl = T it is false while the age is at
\* most T and true once the age exceeds T.
C11_AsStated ==
    last.op = "needs_fetch" =>
        (last.ret <=> \/ (~pre.tne /\ ~exists(pre))
                      \/ ((pre.tne \/ exists(pre)) /\ \E T \in last.ttl : EntryAge > T))

-----------------------------------------------------------------------------
(* The HTTP session on its own: one http_session.get(url) per step, against *)
(* every behaviour of the upstream.                                          *)

\* The upstream fails at most MaxFails attempts in a row.
MaxFails == 5

HttpInputs ==
    {Net(n, e, st, b) : n \in 0 .. MaxFails, e \in TransportErrors,
                        st \in Statuses, b \in {EmptyBytes, JpegA, Html}}

InitHttp ==
    /\ layer_id = "yamapng"
    /\ remote_url = Url("config", 0)
    /\ cache = [key \in Tiles |-> Absent]
    /\ now = 0
    /\ last = Idle
    /\ EngineIdle

\* http_session.get(url) with the upstream behaving as net.
GetCall ==
    \E net \in HttpInputs :
        /\ last' = [op |-> "get", net |-> net, call |-> http_session_get(net)]
        /\ UNCHANGED <<layer_id, remote_url, cache, now, engine_vars>>

NextHttp == GetCall

SpecHttp == InitHttp /\ [][NextHttp]_vars

\* The waits before attempts 2 .. n + 1: delay, delay * backoff, ...
Waits(n) == [i \in 1 .. n |-> delay * backoff ^ (i - 1)]

(* C12 *)

\* C12 as stated: a request that keeps failing with a transport error is
\* attempted at most 3 times in total, with waits of 3 s doubled each time
\* between the attempts, and the failure is then handed to the caller.
C12_AsStated ==
    (last.op = "get" /\ last.call.kind = "raise")
        => /\ last.call.attempts <= 3
           /\ last.call.delays = Waits(last.call.attempts - 1)
           /\ last.call.exc = last.net.exc

\* C12 amended: a request that keeps failing with a transport error is
\* attempted at most 4 times in total (the first attempt and tries = 3
\* retries), with waits of 3, 6 and 12 s between the attempts; the error of the
\* 4th attempt is handed to the caller, and no call makes more attempts.
C12_FourAttemptsThenRaise ==
    last.op = "get" =>
        /\ last.call.attempts <= tries + 1
        /\ last.call.delays = Waits(last.call.attempts - 1)
        /\ last.net.fails > tries
               => /\ last.call.kind = "raise"
                  /\ last.call.exc = last.net.exc
                  /\ last.call.attempts = tries + 1
        /\ last.call.kind = "raise" => last.net.fails > tries

\* A request that failed more often than there are retries was given up
\* after the waits 3, 6, 12.
C12_Witness ==
    /\ last.op = "get" /\ last.net.fails > tries + 1 /\ last.net.exc = "TimeoutError"
    /\ last.call.kind = "raise" /\ last.call.delays = <<3, 6, 12>>

(* C13 *)

\* C13: an answer that carries an HTTP status, 4xx and 5xx included, is not
\* retried: the attempt that receives it is the last one, and get returns the
\* response with the upstream's status and body.
C13_StatusAnswerNotRetried ==
    (last.op = "get" /\ last.net.fails <= tries)
        => /\ last.call.kind = "return"
           /\ last.call.attempts = last.net.fails + 1
           /\ last.call.status = last.net.status
           /\ last.call.body = last.net.body

\* A 500 answer was returned after one request.
C13_Witness ==
    /\ last.op = "get" /\ last.net.fails = 0 /\ last.net.status = 500
    /\ last.call.kind = "return" /\ last.call.attempts = 1 /\ last.call.status = 500

(* C14 *)

\* C14: tms(z, x, y) with z below min_zoom or above max_zoom returns None,
\* issues no tile request and leaves the tile's image file and TNE marker as
\* they were, also when the image is in the cache.  (A fetch that raised did so
\* in the version discovery of tms_google_sat and never called tms.)
C14_ZoomLimitTouchesNothing ==
    (Fetched /\ last.ret.kind # "raise"
             /\ (last.key[1] < layer.min_zoom \/ last.key[1] > layer.max_zoom))
        => /\ ReturnedNone
           /\ last.call = NoCall
           /\ last.set_blob = NotCalled
           /\ post = pre

\* A tile below min_zoom whose image is in the cache was asked for.
C14_Witness ==
    Fetched /\ last.key[1] < layer.min_zoom /\ exists(pre) /\ ReturnedNone /\ post = pre

-----------------------------------------------------------------------------
(* Rectangles (src/twms/bbox.py).  A Bbox is <<lon_min, lat_min, lon_max,  *)
(* lat_max>> in whole degrees.                                              *)

\* The while loop of normalize: shift east by 360 until lon_min >= -180.
RECURSIVE shift_east(_)
shift_east(bbox) ==
    IF bbox[1] < -180
    THEN shift_east(<<bbox[1] + 360, bbox[2], bbox[3] + 360, bbox[4]>>)
    ELSE bbox

\* normalize(bbox) -> (bbox, flip_h)
normalize(bbox) ==
    LET b1 == shift_east(bbox)
        b2 == IF b1[1] > b1[3] THEN <<b1[1], b1[2], b1[3] + 360, b1[4]>> ELSE b1
    IN  IF b2[2] > b2[4]
        THEN <<<<b2[1], b2[4], b2[3], b2[2]>>, TRUE>>
        ELSE <<b2, FALSE>>

\* bbox_is_in(bbox_outer, bbox_to_check, fully).  With fully=False the two
\* rectangles are swapped so that bo starts further west, then (independently)
\* so that bo starts further south.
bbox_is_in(bbox_outer, bbox_to_check, fully) ==
    LET bo == normalize(bbox_outer)[1]
        bc == normalize(bbox_to_check)[1]
    IN  IF fully
        THEN (bo[1] <= bc[1] /\ bo[3] >= bc[3]) /\ (bo[2] <= bc[2] /\ bo[4] >= bc[4])
        ELSE LET swap1 == bo[1] > bc[1]
                 bo1 == IF swap1 THEN bc ELSE bo
                 bc1 == IF swap1 THEN bo ELSE bc
             IN  IF bc1[1] <= bo1[3]
                 THEN LET swap2 == bo1[2] > bc1[2]
                          bo2 == IF swap2 THEN bc1 ELSE bo1
                          bc2 == IF swap2 THEN bo1 ELSE bc1
                      IN  bc2[2] <= bo2[4]
                 ELSE FALSE

-----------------------------------------------------------------------------
(* Tile math (src/twms/projections.py), for the tiles of zoom <= 2, whose  *)
(* corners fall on whole degrees in EPSG:4326.                              *)

\* Latitude of the rows of the EPSG:3857 pyramid at y / 2^z = 0, 1/4, ..., 1,
\* rounded to whole degrees (85.05, 66.51, 0, -66.51, -85.05).
MercLat == <<85, 66, 0, -66, -85>>

\* coords_by_tile(z, x, y, srs): the lon/lat of the upper left corner of the
\* tile.  normalized_tile = x / 2.0**z, 1 - y / 2.0**z; for z < 0 the divisor
\* 2.0**z is the fraction 1 / 2^-z.
coords_by_tile(z, x, y, srs) ==
    LET lon == IF z >= 0 THEN (x * 360) \div (2 ^ z) - 180
                         ELSE x * (2 ^ (0 - z)) * 360 - 180
        lat == IF srs = "EPSG:4326"
               THEN IF z >= 0 THEN 90 - (y * 180) \div (2 ^ z)
                              ELSE 90 - y * (2 ^ (0 - z)) * 180
               ELSE MercLat[(y * 4) \div (2 ^ z) + 1]
    IN  <<lon, lat>>

\* bbox_by_tile(z, x, y, srs) -> a1, b2, b1, a2
bbox_by_tile(z, x, y, srs) ==
    LET a == coords_by_tile(z, x, y, srs)
        b == coords_by_tile(z, x + 1, y + 1, srs)
    IN  <<a[1], b[2], b[1], a[2]>>

-----------------------------------------------------------------------------
(* bbox_is_in on its own: every call draws two rectangles. *)

\* Rectangles as a caller may write them: west of -180, with lon_min > lon_max
\* (across the antimeridian), or with the latitudes in either order.
Boxes ==
    {<<a, bd[1], c, bd[2]>> : a \in {-270, -90, 90}, c \in {-90, 0, 180},
                              bd \in {<<-90, 0>>, <<45, 90>>, <<45, 0>>}}

InitBbox ==
    /\ layer_id = "yamapng"
    /\ remote_url = Url("config", 0)
    /\ cache = [key \in Tiles |-> Absent]
    /\ now = 0
    /\ last = Idle
    /\ EngineIdle

\* bbox_is_in(outer, check, fully)
BboxIsInCall ==
    \E outer \in Boxes, check \in Boxes, fully \in BOOLEAN :
        /\ last' = [op |-> "bbox_is_in", outer |-> outer, check |-> check,
                    fully |-> fully, ret |-> bbox_is_in(outer, check, fully)]
        /\ UNCHANGED <<layer_id, remote_url, cache, now, engine_vars>>

NextBbox == BboxIsInCall

SpecBbox == InitBbox /\ [][NextBbox]_vars

\* Two rectangles in normal order share a point (edges included).
Intersects(a, b) ==
    /\ a[1] <= b[3] /\ b[1] <= a[3]
    /\ a[2] <= b[4] /\ b[2] <= a[4]

\* bbox_is_in(..., fully=False) is the intersection test of the normalised
\* rectangles, and gives the same answer with its arguments exchanged.
BboxIsInIsIntersection ==
    (last.op = "bbox_is_in" /\ ~last.fully) =>
        /\ last.ret <=> Intersects(normalize(last.outer)[1], normalize(last.check)[1])
        /\ last.ret <=> bbox_is_in(last.check, last.outer, FALSE)

\* A rectangle that only partly overlaps the other is accepted.
BboxPartialOverlapSeen ==
    /\ last.op = "bbox_is_in" /\ ~last.fully /\ last.ret
    /\ ~bbox_is_in(last.outer, last.check, TRUE)
    /\ ~bbox_is_in(last.check, last.outer, TRUE)

-----------------------------------------------------------------------------
(* The tile engine (src/twms/twms.py, class ImageryHandler).               *)
(*                                                                         *)
(* twms.py reads its settings from twms/twms.conf and takes its tiles from *)
(* fetchers.TileFetcher(layer).fetch(z, x, y); neither that file nor a      *)
(* fetcher with that interface is in the source tree.  The layer table      *)
(* below holds the keys twms.py reads from a layer, and the fetcher is the  *)
(* call at its call site: it answers with a picture for the tiles the       *)
(* upstream has and with None for the others.  bbox.py and projections.py   *)
(* are the modules twms.py imports.                                         *)

\* config.default_bbox: the extent of a layer without "data_bounding_box".
default_bbox == <<-180, -85, 180, 85>>

\* config.layers as twms.py reads it.  "cache_ttl" and "data_bounding_box" are
\* optional keys: {} when the key is absent.
\* The max_zoom of the layer whose pyramid the recursion of tile_image is
\* followed through.
DeepMaxZoom == 3

conf_layers ==
    [osm  |-> [prefix |-> "osm", proj |-> "EPSG:4326", ext |-> "png",
               scalable |-> TRUE, cached |-> TRUE, cache_ttl |-> {},
               fetch |-> TRUE, data_bounding_box |-> {},
               min_zoom |-> 1, max_zoom |-> 2],
     west |-> [prefix |-> "west", proj |-> "EPSG:4326", ext |-> "png",
               scalable |-> FALSE, cached |-> TRUE, cache_ttl |-> {CacheTtl},
               fetch |-> TRUE, data_bounding_box |-> {<<-80, 10, -50, 40>>},
               min_zoom |-> 1, max_zoom |-> 2],
     live |-> [prefix |-> "live", proj |-> "EPSG:4326", ext |-> "png",
               scalable |-> FALSE, cached |-> FALSE, cache_ttl |-> {},
               fetch |-> TRUE, data_bounding_box |-> {},
               min_zoom |-> 1, max_zoom |-> 2],
     deep |-> [prefix |-> "deep", proj |-> "EPSG:4326", ext |-> "png",
               scalable |-> TRUE, cached |-> TRUE, cache_ttl |-> {},
               fetch |-> TRUE, data_bounding_box |-> {},
               min_zoom |-> 1, max_zoom |-> DeepMaxZoom]]

ConfLayerIds == DOMAIN conf_layers

\* layer.get("data_bounding_box", config.default_bbox)
data_bounding_box(L) ==
    IF L.data_bounding_box = {} THEN default_bbox
    ELSE CHOOSE b \in L.data_bounding_box : TRUE

\* What a picture shows: a file's pixels, the upstream's picture of a tile, four
\* pictures glued and halved, or a quadrant of a picture doubled.
Px(kind, prefix, nums, parts) ==
    [kind |-> kind, prefix |-> prefix, nums |-> nums, parts |-> parts]

\* A PIL image as the engine passes it around: whether the stream behind a
\* lazily opened file is complete, and the is_ok attribute the engine sets.
Tile(px, whole, is_ok) == [some |-> TRUE, px |-> px, whole |-> whole, is_ok |-> is_ok]

\* None
NoTile == [some |-> FALSE, px |-> Px("none", "", <<>>, <<>>), whole |-> TRUE, is_ok |-> FALSE]

\* A file of the cache directory: local + suffix, with local =
\* tiles_cache + prefix + "/z{z-1}/{y}/{x}." and suffix one of ext, "dsc." + ext,
\* "ups." + ext, "tne", "lock".
Path(prefix, zdir, y, x, suffix) == <<prefix, zdir, y, x, suffix>>
File(path, content, mtime) == [path |-> path, content |-> content, mtime |-> mtime]

os_path_exists(D, p) == \E f \in D.files : f.path = p
os_stat(D, p) == CHOOSE f \in D.files : f.path = p
os_remove(D, p) == [D EXCEPT !.files = {f \in @ : f.path # p}]
os_write(D, p, content, t) ==
    [D EXCEPT !.files = {f \in @ : f.path # p} \cup {File(p, content, t)}]
os_makedirs(D, dir) == [D EXCEPT !.dirs = @ \cup {dir}]

\* Image.open(path): identifies the format from the header and decodes nothing;
\* IOError when the header is not an image's.
Image_open(b) == b.fmt \in ImageFormats

\* What a call of tile_image hands back: the tile (or None), the cache directory
\* as the call left it, and the lookups it made, in order.
Done(ret, D, log) == [ret |-> ret, D |-> D, log |-> log]

\* The cache_ttl sweep (twms.py 444-449).
RECURSIVE sweep(_, _, _, _, _)
sweep(D, local, suffixes, ttl, t) ==
    IF suffixes = <<>> THEN D
    ELSE LET f == Path(local[1], local[2], local[3], local[4], Head(suffixes))
             D1 == IF os_path_exists(D, f) /\ os_stat(D, f).mtime < t - ttl
                   THEN os_remove(D, f) ELSE D
         IN  sweep(D1, local, Tail(suffixes), ttl, t)

\* config.deadline, in clock units.
deadline == 1

\* delta, the time since the request started: the clock of the model does not
\* move while a request is served.
delta == 0

\* The tiles the upstream has: every tile, or those with x + y even.
Upstreams == {"all", "even"}
upstream_has(upstream, x, y) ==
    upstream = "all" \/ (upstream = "even" /\ (x + y) % 2 = 0)

\* Whether the fetcher is asked at all (twms.py 506-509 and 538-541).
fetch_allowed(L, z) == L.fetch /\ (deadline > delta \/ z < 4)

\* self.fetchers_pool['prefix'].fetch(z, x, y): a picture of the tile, or None.
engine_fetch(E, L, z, x, y) ==
    IF fetch_allowed(L, z) /\ upstream_has(E.upstream, x, y)
    THEN Tile(Px("upstream", L.prefix, <<z, x, y>>, <<>>), TRUE, TRUE)
    ELSE NoTile

engine_fetch_log(E, L, z, x, y) ==
    IF fetch_allowed(L, z) THEN <<<<"fetch", L.prefix, z, x, y>>>> ELSE <<>>

\* x % (2 ** (z - 1)): for z < 1 the modulus is the fraction 1 / 2^(1-z), and
\* an integer modulo it is 0.0.
wrap_x(z, x) == IF z >= 1 THEN x % (2 ^ (z - 1)) ELSE 0

\* y < 0 or y >= (2 ** (z - 1)): for z < 1 the bound is a fraction in (0, 1).
y_out_of_range(z, y) == y < 0 \/ (IF z >= 1 THEN y >= 2 ^ (z - 1) ELSE y >= 1)

\* tile_image(layer, z, x, y, start_time, again, trybetter, real) run on the
\* cache directory D.  E is what the call can see besides: E.ram is
\* self.cached_objs, E.now the clock, E.upstream the tiles the upstream has.
RECURSIVE tile_image(_, _, _, _, _, _, _, _, _)

\* local + suffix (line 438), and the lookups a call has made when it comes to
\* the RAM cache and to the cache directory.
local_path(L, z, x, y, suffix) == Path(L.prefix, z - 1, y, x, suffix)
ram_log(L, z, x, y) == <<<<"ram", L.prefix, z, x, y>>>>
disk_log(L, z, x, y) == ram_log(L, z, x, y) \o <<<<"disk", L.prefix, z - 1, x, y>>>>

\* 521-536: a quadrant of up, the tile one zoom up.
tile_quadrant(L, x, y, log, up) ==
    IF up.ret.some
    THEN Done(Tile(Px("quadrant", L.prefix, <<x % 2, y % 2>>, <<up.ret.px>>),
                   up.ret.whole, FALSE),
              up.D, log \o up.log)
    ELSE Done(NoTile, up.D, log \o up.log)

\* A call that asks for the tile one zoom up with trybetter left at its default.
tile_parent_trying_better(E, D, L, z, x, y, real, log) ==
    IF real /\ z > 1
    THEN tile_quadrant(L, x, y, log,
                       tile_image(E, D, L, z - 1, x \div 2, y \div 2, FALSE, TRUE, TRUE))
    ELSE Done(NoTile, D, log)

\* 514-536: the tile one zoom up, asked for when real and z > 1.
tile_parent(E, D, L, z, x, y, real, log) ==
    IF real /\ z > 1
    THEN tile_quadrant(L, x, y, log,
                       tile_image(E, D, L, z - 1, x \div 2, y \div 2, FALSE, FALSE, TRUE))
    ELSE Done(NoTile, D, log)

\* 466-504: the four tiles of the next zoom, c1 .. c4, asked for one after the
\* other until one is None, then glued, halved and saved as the "ups." file.
tile_glue4(E, L, z, x, y, c1, c2, c3, c4) ==
    IF ~c4.ret.some
    THEN Done(NoTile, c4.D, c1.log \o c2.log \o c3.log \o c4.log)
    ELSE Done(Tile(Px("glue", L.prefix, <<z, x, y>>,
                      <<c1.ret.px, c2.ret.px, c3.ret.px, c4.ret.px>>),
                   c1.ret.whole /\ c2.ret.whole /\ c3.ret.whole /\ c4.ret.whole, TRUE),
              os_write(c4.D, local_path(L, z, x, y, "ups.ext"),
                       Bytes("image/png", 2, TRUE, "twms"), E.now),
              c1.log \o c2.log \o c3.log \o c4.log)

tile_glue3(E, L, z, x, y, c1, c2, c3) ==
    IF ~c3.ret.some THEN Done(NoTile, c3.D, c1.log \o c2.log \o c3.log)
    ELSE tile_glue4(E, L, z, x, y, c1, c2, c3,
                    tile_image(E, c3.D, L, z + 1, x * 2 + 1, y * 2 + 1, FALSE, TRUE, FALSE))

tile_glue2(E, L, z, x, y, c1, c2) ==
    IF ~c2.ret.some THEN Done(NoTile, c2.D, c1.log \o c2.log)
    ELSE tile_glue3(E, L, z, x, y, c1, c2,
                    tile_image(E, c2.D, L, z + 1, x * 2, y * 2 + 1, FALSE, TRUE, FALSE))

tile_glue1(E, L, z, x, y, c1) ==
    IF ~c1.ret.some THEN Done(NoTile, c1.D, c1.log)
    ELSE tile_glue2(E, L, z, x, y, c1,
                    tile_image(E, c1.D, L, z + 1, x * 2 + 1, y * 2, FALSE, TRUE, FALSE))

tile_glue(E, D, L, z, x, y) ==
    tile_glue1(E, L, z, x, y,
               tile_image(E, D, L, z + 1, x * 2, y * 2, FALSE, TRUE, FALSE))

\* 505-536: the fetcher, then the tile one zoom up; after_glue is the cache
\* directory and the lookups the glue attempt left.
tile_fetch(E, L, z, x, y, again, real, after_glue) ==
    LET fetched == IF again THEN NoTile ELSE engine_fetch(E, L, z, x, y)
        fetch_log == IF again THEN <<>> ELSE engine_fetch_log(E, L, z, x, y)
        log == disk_log(L, z, x, y) \o after_glue.log \o fetch_log
    IN  IF fetched.some THEN Done(fetched, after_glue.D, log)
        ELSE tile_parent(E, after_glue.D, L, z, x, y, real, log)

\* 504: the glued tile, when there is one.
tile_glued(E, L, z, x, y, again, real, glued) ==
    IF glued.ret.some THEN Done(glued.ret, glued.D, disk_log(L, z, x, y) \o glued.log)
    ELSE tile_fetch(E, L, z, x, y, again, real, glued)

\* 466-536: the "ups." file or the glue of the next zoom, for a scalable layer
\* below max_zoom.
tile_better(E, D, L, z, x, y, again, trybetter, real) ==
    LET glue == L.scalable /\ z < L.max_zoom /\ trybetter
        ups == local_path(L, z, x, y, "ups.ext")
        ups_ok == os_path_exists(D, ups) /\ Image_open(os_stat(D, ups).content)
    IN  IF glue /\ ups_ok
        THEN Done(Tile(Px("file", L.prefix, <<os_stat(D, ups).content.px>>, <<>>),
                       os_stat(D, ups).content.whole, TRUE), D, disk_log(L, z, x, y))
        ELSE IF glue
        THEN tile_glued(E, L, z, x, y, again, real, tile_glue(E, D, L, z, x, y))
        ELSE tile_fetch(E, L, z, x, y, again, real, Done(NoTile, D, <<>>))

\* 454-536: the cached branch on the directory D, after the sweep and makedirs.
tile_disk(E, D, L, z, x, y, again, trybetter, real) ==
    LET own == local_path(L, z, x, y, "ext")
        has_file == os_path_exists(D, own)
        file_ok == has_file /\ Image_open(os_stat(D, own).content)
    IN  IF \/ os_path_exists(D, local_path(L, z, x, y, "tne"))
           \/ os_path_exists(D, local_path(L, z, x, y, "lock"))
        THEN tile_parent(E, D, L, z, x, y, real, disk_log(L, z, x, y))
        ELSE IF file_ok
        THEN Done(Tile(Px("file", L.prefix, <<os_stat(D, own).content.px>>, <<>>),
                       os_stat(D, own).content.whole, TRUE), D, disk_log(L, z, x, y))
        ELSE tile_better(E, IF has_file THEN os_remove(D, own) ELSE D,
                         L, z, x, y, again, trybetter, real)

\* 426-545: tile_image after line 425 has wrapped x.
tile_wrapped(E, D, L, z, x, y, again, trybetter, real) ==
    IF y_out_of_range(z, y) THEN Done(NoTile, D, <<>>)
    ELSE IF ~bbox_is_in(bbox_by_tile(z, x, y, L.proj), data_bounding_box(L), FALSE)
    THEN Done(NoTile, D, <<>>)
    ELSE IF \E c \in E.ram : c.key = <<L.prefix, z, x, y>>
    THEN Done((CHOOSE c \in E.ram : c.key = <<L.prefix, z, x, y>>).im, D, ram_log(L, z, x, y))
    ELSE IF ~L.cached
    THEN Done(engine_fetch(E, L, z, x, y), D,
              ram_log(L, z, x, y) \o engine_fetch_log(E, L, z, x, y))
    ELSE tile_disk(E,
                   os_makedirs(IF L.cache_ttl = {} THEN D
                               ELSE sweep(D, <<L.prefix, z - 1, y, x>>,
                                          <<"ext", "dsc.ext", "ups.ext", "tne">>,
                                          CHOOSE t \in L.cache_ttl : TRUE, E.now),
                               <<L.prefix, z - 1, y>>),
                   L, z, x, y, again, trybetter, real)

tile_image(E, D, L, z, x0, y, again, trybetter, real) ==
    tile_wrapped(E, D, L, z, wrap_x(z, x0), y, again, trybetter, real)

-----------------------------------------------------------------------------
(* The engine as a state machine: one ImageryHandler and its cache directory *)

\* Cache directories the engine may start on (every file written at time 0):
\* empty; one tile of zoom 0; the four tiles of zoom 1; a file that is no
\* image, a tne mark and a lock; the tne mark of a tile of a scalable layer;
\* a tile whose file is cut short.
StartDisks ==
    {{},
     {File(Path("osm", 0, 0, 0, "ext"), PngA, 0)},
     {File(Path("osm", 1, y, x, "ext"), PngA, 0) : x \in {0, 1}, y \in {0, 1}},
     {File(Path("west", 1, 1, 1, "ext"), Html, 0),
      File(Path("west", 0, 0, 0, "tne"), EmptyBytes, 0),
      File(Path("osm", 1, 0, 0, "lock"), EmptyBytes, 0),
      File(Path("osm", 0, 0, 0, "ups.ext"), PngA, 0)},
     {File(Path("osm", 0, 0, 0, "tne"), EmptyBytes, 0)},
     {File(Path("osm", 1, 1, 1, "ext"), PngTrunc, 0)}}

\* A tile as getimg leaves it in cached_objs.
RamEntry(key, im) == [key |-> key, im |-> im]
OsmInRam ==
    RamEntry(<<"osm", 2, 1, 1>>, Tile(Px("upstream", "osm", <<2, 1, 1>>, <<>>), TRUE, TRUE))

\* The engine starts on one of the cache directories with nothing in RAM, or on
\* the empty directory with one tile in RAM.
InitEngine ==
    /\ layer_id = "yamapng"
    /\ remote_url = Url("config", 0)
    /\ cache = [key \in Tiles |-> Absent]
    /\ now = 0
    /\ last = Idle
    /\ \/ /\ tiles_cache \in {[files |-> fs, dirs |-> {}] : fs \in StartDisks}
          /\ cached_objs = {}
          /\ cached_hist_list = <<>>
       \/ /\ tiles_cache = [files |-> {}, dirs |-> {}]
          /\ cached_objs = {OsmInRam}
          /\ cached_hist_list = <<OsmInRam.key>>
    /\ fetchers_pool = ""
    /\ threads = NoThreads
    /\ file_blocks = NoBlocks

\* What a call sees besides the cache directory.
Env(upstream) == [ram |-> cached_objs, now |-> now, upstream |-> upstream]

\* The calls of the model, <<layer, z, x, y>>: tiles in range, off the grid to
\* the east, south and north, outside the layer's extent, and at zoom arguments
\* below 1.
EngineCalls ==
    {<<"osm", 1, 0, 0>>, <<"osm", 1, 1, 0>>, <<"osm", 1, 0, 1>>, <<"osm", 2, 1, 1>>,
     <<"osm", 2, 3, 1>>, <<"osm", 1, 2, 0>>, <<"osm", 2, 0, 1>>,
     <<"west", 2, 0, 0>>, <<"west", 2, 1, 1>>, <<"west", 2, 3, 1>>, <<"west", 1, 0, 0>>,
     <<"live", 0, 0, 0>>, <<"live", -1, 1, 0>>, <<"live", 2, 1, -1>>, <<"live", 1, 0, 2>>}

\* tile_image(layer, z, x, y, start_time, real=...).  Lines 422-423 store a new
\* TileFetcher(layer) under the key 'prefix' first.
TileImageCall ==
    \E c \in EngineCalls, real \in BOOLEAN, upstream \in Upstreams :
    \E r \in {tile_image(Env(upstream), tiles_cache, conf_layers[c[1]],
                         c[2], c[3], c[4], FALSE, TRUE, real)} :
        /\ tiles_cache' = r.D
        /\ fetchers_pool' = conf_layers[c[1]].prefix
        /\ last' = [op |-> "tile_image", layer |-> c[1], z |-> c[2], x |-> c[3], y |-> c[4],
                    real |-> real,
                    env |-> Env(upstream), pre |-> tiles_cache,
                    ret |-> r.ret, log |-> r.log]
        /\ UNCHANGED <<layer_id, remote_url, cache, now, cached_objs, cached_hist_list,
                       threads, file_blocks>>

\* The clock of the engine runs until a file written at 0 has outlived cache_ttl.
TickEngine ==
    /\ now < CacheTtl + 1
    /\ now' = now + 1
    /\ UNCHANGED <<layer_id, remote_url, cache, last, engine_vars>>

NextEngine == TileImageCall \/ TickEngine

SpecEngine == InitEngine /\ [][NextEngine]_vars

-----------------------------------------------------------------------------
(* Properties of tile_image *)

TileImaged == last.op = "tile_image"

\* The layer of the most recent tile_image call.
TheLayer == conf_layers[last.layer]

\* The call rejected the tile: None, before any lookup, nothing written.
Rejected == ~last.ret.some /\ last.log = <<>> /\ tiles_cache = last.pre

\* z, x, y name a row of the pyramid of zoom z: z >= 0 and 0 <= y < 2^z.
RowInRange == last.z >= 0 /\ 0 <= last.y /\ last.y < 2 ^ last.z

\* The lon/lat rectangle of the requested tile, its column taken modulo 2^z.
TileRect == bbox_by_tile(last.z, last.x % (2 ^ last.z), last.y, TheLayer.proj)

\* The requested tile lies (at least partly) inside the layer's extent.
InExtent == Intersects(normalize(TileRect)[1], normalize(data_bounding_box(TheLayer))[1])

\* The same call with x reduced modulo 2^z, run on the same cache directory.
Wrapped ==
    tile_image(last.env, last.pre, TheLayer, last.z, last.x % (2 ^ last.z), last.y,
               FALSE, TRUE, last.real)

\* C18 as stated: for z >= 0 and 0 <= y < 2^z, tile_image(z, x, y) gives what
\* tile_image(z, x mod 2^z, y) gives, and a column x with 0 <= x < 2^z is the
\* column the engine looks up.
C18_AsStated ==
    (TileImaged /\ RowInRange) =>
        /\ Wrapped.ret = last.ret /\ Wrapped.D = tiles_cache /\ Wrapped.log = last.log
        /\ (0 <= last.x /\ last.x < 2 ^ last.z /\ last.log # <<>>) => last.log[1][4] = last.x

\* C19 as stated: y < 0, y >= 2^z or z < 0 gives None without any lookup, and
\* every row 0 <= y < 2^z passes the coordinate check (so that a tile inside the
\* layer's extent is looked up).
C19_AsStated ==
    TileImaged =>
        /\ ~RowInRange => Rejected
        /\ (RowInRange /\ InExtent) => last.log # <<>>

\* C20 as stated: a tile of the pyramid is rejected before any lookup exactly
\* when its lon/lat rectangle and the layer's extent do not intersect.
C20_AsStated ==
    (TileImaged /\ RowInRange) => (Rejected <=> ~InExtent)

-----------------------------------------------------------------------------
(* getimg and handler (src/twms/twms.py 39-411).  The layers of the model  *)
(* are all in EPSG:4326, so the tile pyramid getimg walks is the geographic *)
(* one; a request may be in EPSG:4326 or EPSG:3857.                         *)

\* config.max_ram_cached_tiles
max_ram_cached_tiles == 2

\* config.max_height and config.max_width
max_height == 4095
max_width == 4095

\* mimetypes.types_map.values(), as far as requests of the model go.
MimeTypes == {"image/png", "image/jpeg", "image/gif"}

\* tile_by_coords((lon, lat), zoom, "EPSG:4326"): the fractional column times
\* 360 and the fractional row times 180.
tile_by_coords(lon, lat, zoom) == <<(lon + 180) * (2 ^ zoom), (90 - lat) * (2 ^ zoom)>>

\* tile_by_bbox(bbox, zoom, "EPSG:4326") -> a1, a2, b1, b2, scaled likewise.
tile_by_bbox(bbox, zoom) ==
    LET a == tile_by_coords(bbox[1], bbox[2], zoom)
        b == tile_by_coords(bbox[3], bbox[4], zoom)
        b1 == IF b[1] < a[1] THEN b[1] + 360 * (2 ^ (zoom - 1)) ELSE b[1]
    IN  <<a[1], a[2], b1, b[2]>>

\* A test of the grid's larger side against the larger side of the request.
zoom_fits_larger_side(bbox, h, w, i) ==
    LET t == tile_by_bbox(bbox, i)
        cx == t[3] - t[1]
        cy == 2 * (t[2] - t[4])
        side == IF cx >= cy THEN cx ELSE cy
        asked == IF w >= h THEN w ELSE h
    IN  \/ side * 256 * 10 >= asked * 9 * 360
        \/ cy * 256 >= max_height * 180
        \/ cx * 256 * 2 >= max_width * 360

\* One pass of the loop of zoom_for_bbox: does zoom i fit the requested size?
zoom_fits(bbox, h, w, i) ==
    LET t == tile_by_bbox(bbox, i)
        cx == t[3] - t[1]    \* (cx2 - cx1) * 360
        cy == t[2] - t[4]    \* (cy1 - cy2) * 180
    IN  \/ w # 0 /\ cx * 256 * 10 >= w * 9 * 360
        \/ h # 0 /\ cy * 256 * 10 >= h * 9 * 180
        \/ cy * 256 * 2 >= max_height * 180
        \/ cx * 256 * 2 >= max_width * 360

\* zoom_for_bbox(bbox, size, layer, min_zoom, max_zoom, max_size)
RECURSIVE zoom_for_bbox(_, _, _, _, _)
zoom_for_bbox(bbox, h, w, i, max_zoom) ==
    IF i >= max_zoom THEN max_zoom
    ELSE IF zoom_fits(bbox, h, w, i) THEN i
    ELSE zoom_for_bbox(bbox, h, w, i + 1, max_zoom)

\* The engine's state as a call threads it.
Engine(D, ram, hist, pool) == [D |-> D, ram |-> ram, hist |-> hist, pool |-> pool]

\* The loop of getimg over the tiles (lines 361-381): tile_image with
\* real=True, the RAM cache filled with the tiles that are is_ok and emptied
\* from its oldest end, empty_color painted where there is no tile.
RECURSIVE getimg_loop(_, _, _, _, _, _)

\* Where the loop pastes the tile (x, y) of a grid that starts at column
\* from_tile_x and row to_tile_y (line 379), with the rows for columns, and as
\* the code has it.
paste_box_transposed(x, y, from_tile_x, to_tile_y) ==
    <<(0 - to_tile_y + y) * 256, (x - from_tile_x) * 256>>

paste_box(x, y, from_tile_x, to_tile_y) ==
    <<(x - from_tile_x) * 256, (0 - to_tile_y + y) * 256>>

\* The size of the canvas the tiles are pasted on (lines 356-360).
canvas_size(from_tile_x, to_tile_y, to_tile_x, from_tile_y) ==
    <<256 * (to_tile_x - from_tile_x + 1), 256 * (from_tile_y - to_tile_y + 1)>>

\* One turn of the loop (lines 363-381), r being what tile_image gave for the
\* tile at the head of coords.
getimg_tile(S, L, zoom, coords, upstream, acc, r) ==
    LET x == Head(coords)[1]
        y == Head(coords)[2]
        key == <<L.prefix, zoom, x, y>>
        add == r.ret.some /\ ~(\E c \in S.ram : c.key = key) /\ r.ret.is_ok
        ram1 == IF add THEN S.ram \cup {RamEntry(key, r.ret)} ELSE S.ram
        hist1 == IF add THEN Append(S.hist, key) ELSE S.hist
        evict == r.ret.some /\ Cardinality(ram1) >= max_ram_cached_tiles
        ram2 == IF evict THEN {c \in ram1 : c.key # Head(hist1)} ELSE ram1
        hist2 == IF evict THEN Tail(hist1) ELSE hist1
        part == IF r.ret.some THEN r.ret.px ELSE Px("empty_color", L.prefix, <<>>, <<>>)
    IN  getimg_loop(Engine(r.D, ram2, hist2, L.prefix), L, zoom, Tail(coords), upstream,
                    [parts |-> Append(acc.parts, part), log |-> acc.log \o r.log,
                     whole |-> acc.whole /\ r.ret.whole, origin |-> acc.origin,
                     boxes |-> Append(acc.boxes,
                                      paste_box(x, y, acc.origin[1], acc.origin[2]))])

getimg_loop(S, L, zoom, coords, upstream, acc) ==
    IF coords = <<>>
    THEN [S |-> S, parts |-> acc.parts, log |-> acc.log, whole |-> acc.whole,
          boxes |-> acc.boxes]
    ELSE getimg_tile(S, L, zoom, coords, upstream, acc,
                     tile_image([ram |-> S.ram, now |-> now, upstream |-> upstream],
                                S.D, L, zoom, Head(coords)[1], Head(coords)[2],
                                FALSE, TRUE, TRUE))

\* getimg(bbox, request_proj, size, layer, start_time, force).  The corners of
\* the request are those of bbox itself (rectify moves no point of a layer
\* without corrections), so expand_to_point leaves bbox as it is.  Pasting a
\* tile whose file is cut short raises OSError.
\* The tiles of getimg at the zoom it chose (lines 348-381), t being
\* tile_by_bbox(bbox, zoom), and what getimg makes of the loop's tiles: the
\* picture's numbers are zoom, from_tile_x, to_tile_y, to_tile_x, from_tile_y,
\* h, w, the size of the canvas, and the offset of each paste in turn.
getimg_out(L, nums, loop) ==
    [S |-> loop.S, log |-> loop.log,
     exc |-> IF loop.whole THEN "" ELSE "OSError",
     img |-> Px("map", L.prefix,
                nums \o canvas_size(nums[2], nums[3], nums[4], nums[5])
                     \o [k \in 1 .. 2 * Len(loop.boxes) |->
                            loop.boxes[(k + 1) \div 2][2 - (k % 2)]],
                loop.parts)]

getimg_tiles(S, h, w, L, upstream, zoom, t) ==
    LET from_tile_x == t[1] \div 360
        from_tile_y == t[2] \div 180
        to_tile_x == t[3] \div 360
        to_tile_y == t[4] \div 180
        rows == from_tile_y - to_tile_y + 1
        n == (to_tile_x - from_tile_x + 1) * rows
        coords == [i \in 1 .. n |-> <<from_tile_x + ((i - 1) \div rows), to_tile_y + ((i - 1) % rows)>>]
    IN  getimg_out(L, <<zoom, from_tile_x, to_tile_y, to_tile_x, from_tile_y, h, w>>,
                   getimg_loop(S, L, zoom, coords, upstream,
                               [parts |-> <<>>, log |-> <<>>, whole |-> TRUE,
                                origin |-> <<from_tile_x, to_tile_y>>, boxes |-> <<>>]))

getimg_at(S, bbox, h, w, L, upstream, zoom) ==
    getimg_tiles(S, h, w, L, upstream, zoom, tile_by_bbox(bbox, zoom))

getimg(S, bbox, h, w, L, upstream) ==
    getimg_at(S, bbox, h, w, L, upstream, zoom_for_bbox(bbox, h, w, L.min_zoom, L.max_zoom))

\* What handler returns, (status, content_type, resp), or the exception it
\* lets through.
Response(status, content_type, body) ==
    [kind |-> "response", status |-> status, content_type |-> content_type,
     body |-> body, exc |-> ""]
Raised(exc) ==
    [kind |-> "raise", status |-> 0, content_type |-> "", body |-> EmptyBytes, exc |-> exc]

\* A text answer, and a picture encoded by PIL as content_type.
Text == Bytes("text/plain", 0, TRUE, "twms")
Encoded(content_type) == Bytes(content_type, 3, TRUE, "twms")

\* A fast path that would decode the file and encode it again.
read_file_reencoded(D, p) == Encoded(os_stat(D, p).content.fmt)

\* open(local + add + ext, 'rb').read()
read_file(D, p) == os_stat(D, p).content

\* What a call of handler hands back besides its answer.
Handled(resp, S, log, img) == [resp |-> resp, S |-> S, log |-> log, img |-> img]

\* The loop over the additional layers (lines 206-247): config.layers[ll] is
\* looked up outside any try.
RECURSIVE more_layers(_, _, _, _, _, _, _, _)

\* One additional layer (lines 215-247), g being what getimg gave for it.
more_layers_blend(names, box, h, w, data, upstream, acc, g) ==
    LET mix == IF "noblend" \in data.force THEN "composite" ELSE "blend"
    IN  IF g.exc # ""
        THEN [S |-> g.S, log |-> acc.log \o g.log, img |-> acc.img, exc |-> g.exc]
        ELSE more_layers(g.S, Tail(names), box, h, w, data, upstream,
                         [log |-> acc.log \o g.log,
                          img |-> Px(mix, "", <<>>, <<g.img, acc.img>>)])

more_layers(S, names, box, h, w, data, upstream, acc) ==
    IF names = <<>> THEN [S |-> S, log |-> acc.log, img |-> acc.img, exc |-> ""]
    ELSE IF Head(names) \notin ConfLayerIds
    THEN [S |-> S, log |-> acc.log, img |-> acc.img, exc |-> "KeyError"]
    ELSE more_layers_blend(names, box, h, w, data, upstream, acc,
                           getimg(S, box, h, w, conf_layers[Head(names)], upstream))

\* The end of handler (lines 249-306): rest is what the loop over the
\* additional layers gave; the picture is flipped, encoded and answered.
handler_encode(content_type, flip_h, rest) ==
    IF rest.exc # ""
    THEN Handled(Raised(rest.exc), rest.S, rest.log, NoTile.px)
    ELSE Handled(Response(200, content_type, Encoded(content_type)), rest.S, rest.log,
                 IF flip_h THEN Px("flip", "", <<>>, <<rest.img>>) ELSE rest.img)

\* handler from its first layer on (lines 191-306): first is the picture of
\* the first layer.
handler_layers(names, box, h, w, data, upstream, content_type, first) ==
    IF first.exc # ""
    THEN Handled(Raised(first.exc), first.S, first.log, NoTile.px)
    ELSE handler_encode(content_type, box[2],
                        more_layers(first.S, Tail(names), box[1], h, w, data, upstream,
                                    [log |-> first.log, img |-> first.img]))

\* handler from req_bbox on (lines 173-306).
handler_map(S, names, box, h, w, data, upstream, content_type) ==
    handler_layers(names, box, h, w, data, upstream, content_type,
                   IF names[1] \in ConfLayerIds
                   THEN getimg(S, box[1], h, w, conf_layers[names[1]], upstream)
                   ELSE [S |-> S, log |-> <<>>, exc |-> "",
                         img |-> Px("blank", "", <<h, w>>, <<>>)])

\* handler(data) for a GetTile or GetMap request that names its layers.  data
\* holds the parameters of the request ("" and 0 for an absent one); corr is
\* correctify.has_corrections(layer), upstream the tiles the upstream has.
handler(S, data, corr, upstream) ==
    LET names == data.layers
        content_type == IF data.format = "" THEN "image/jpeg" ELSE data.format
        z == data.z + 1
        x == data.x
        y == data.y
        gettile == data.request = "GetTile"
        height == IF data.height # 0 THEN data.height ELSE IF gettile THEN 256 ELSE 0
        width == IF data.width # 0 THEN data.width ELSE IF gettile THEN 256 ELSE 0
        srs == IF data.srs # "" THEN data.srs
               ELSE IF gettile THEN "EPSG:3857" ELSE "EPSG:4326"
        \* 152-171: the tile file handed out as it is
        L1 == conf_layers[names[1]]
        fast == /\ gettile
                /\ Len(names) = 1
                /\ names[1] \in ConfLayerIds
                /\ L1.proj = srs /\ width = 256 /\ height = 256
                /\ data.filt = "" /\ data.force = {} /\ ~corr
        plain == Path(L1.prefix, z - 1, y, x, "ext")
        ups == Path(L1.prefix, z - 1, y, x, "ups.ext")
        \* 173-189
        h == IF height < max_height THEN height ELSE max_height
        w0 == IF width < max_width THEN width ELSE max_width
        w == IF w0 = 0 /\ h = 0 THEN 350 ELSE w0
    IN  IF data.format # "" /\ data.format \notin MimeTypes
        THEN Handled(Response(500, "text/plain", Text), S, <<>>, NoTile.px)
        ELSE IF fast /\ os_path_exists(S.D, plain)
        THEN Handled(Response(200, content_type, read_file(S.D, plain)), S, <<>>, NoTile.px)
        ELSE IF fast /\ os_path_exists(S.D, ups)
        THEN Handled(Response(200, content_type, read_file(S.D, ups)), S, <<>>, NoTile.px)
        \* 191-204: the first layer, KeyError caught
        ELSE handler_map(S, names, normalize(bbox_by_tile(z, x, y, srs)), h, w, data,
                         upstream, content_type)

-----------------------------------------------------------------------------
(* The handler as a state machine *)

Request(request, names, format, srs, z, x, y, width, height, force, filt) ==
    [request |-> request, layers |-> names, format |-> format, srs |-> srs,
     z |-> z, x |-> x, y |-> y, width |-> width, height |-> height,
     force |-> force, filt |-> filt]

\* A tile request as the TMS front-end makes it: one layer, the layer's own
\* projection, 256x256, PNG.
TmsRequest(id, z, x, y) ==
    Request("GetTile", <<id>>, "image/png", "EPSG:4326", z, x, y, 0, 0, {}, "")

\* The requests of the model.
Requests ==
    {TmsRequest("osm", 0, 0, 0), TmsRequest("osm", 1, 1, 1), TmsRequest("west", 1, 1, 1),
     TmsRequest("live", 0, 0, 0), TmsRequest("nolayer", 0, 0, 0),
     Request("GetTile", <<"osm">>, "image/png", "", 0, 0, 0, 0, 0, {}, ""),
     Request("GetTile", <<"osm">>, "image/png", "EPSG:4326", 0, 0, 0, 0, 0, {"noblend"}, ""),
     Request("GetTile", <<"osm">>, "image/png", "EPSG:4326", 0, 0, 0, 0, 0, {}, "bw"),
     Request("GetTile", <<"osm">>, "image/bogus", "EPSG:4326", 0, 0, 0, 0, 0, {}, ""),
     Request("GetTile", <<"osm">>, "", "EPSG:4326", 0, 0, 0, 512, 512, {}, ""),
     Request("GetTile", <<"osm", "west">>, "image/png", "EPSG:4326", 1, 1, 1, 0, 0, {}, ""),
     Request("GetMap", <<"osm">>, "image/jpeg", "", 1, 0, 0, 0, 0, {}, ""),
     Request("GetMap", <<"nolayer">>, "image/png", "", 1, 0, 0, 256, 256, {}, ""),
     Request("GetMap", <<"osm", "nolayer">>, "image/png", "", 1, 0, 0, 256, 256, {}, ""),
     Request("GetMap", <<"west", "osm">>, "image/png", "", 1, 1, 1, 256, 256, {"noblend"}, "")}

\* The calls of the model, <<data, corr, upstream>>: every request against an
\* upstream that has every tile and a layer without corrections, and some
\* against an upstream that lacks tiles or a layer with corrections.
HandlerInputs ==
    {<<data, FALSE, "all">> : data \in Requests}
    \cup {<<TmsRequest("osm", 0, 0, 0), corr, "even">> : corr \in BOOLEAN}
    \cup {<<TmsRequest("osm", 1, 1, 1), TRUE, "all">>,
          <<TmsRequest("west", 1, 1, 1), FALSE, "even">>}

\* handler(data)
HandlerCall ==
    \E c \in HandlerInputs :
    \E r \in {handler(Engine(tiles_cache, cached_objs, cached_hist_list, fetchers_pool),
                      c[1], c[2], c[3])} :
        /\ tiles_cache' = r.S.D
        /\ cached_objs' = r.S.ram
        /\ cached_hist_list' = r.S.hist
        /\ fetchers_pool' = r.S.pool
        /\ last' = [op |-> "handler", data |-> c[1], corr |-> c[2], pre |-> tiles_cache,
                    resp |-> r.resp, log |-> r.log, img |-> r.img]
        /\ UNCHANGED <<layer_id, remote_url, cache, now, threads, file_blocks>>

NextHandler == HandlerCall \/ TickEngine

SpecHandler == InitEngine /\ [][NextHandler]_vars

-----------------------------------------------------------------------------
(* Properties of handler *)

Served == last.op = "handler"

\* The projection of the request: srs, or the default of its request type.
ReqSrs ==
    IF last.data.srs # "" THEN last.data.srs
    ELSE IF last.data.request = "GetTile" THEN "EPSG:3857" ELSE "EPSG:4326"

\* The request names a layer that is not in the layer table.
UnknownLayer == \E i \in 1 .. Len(last.data.layers) : last.data.layers[i] \notin ConfLayerIds

\* The fast-path conditions as the specification lists them: one layer, its
\* projection the request's, 256x256, no force flags.
FastAsListed ==
    /\ last.data.request = "GetTile"
    /\ Len(last.data.layers) = 1
    /\ ~UnknownLayer
    /\ conf_layers[last.data.layers[1]].proj = ReqSrs
    /\ last.data.width \in {0, 256} /\ last.data.height \in {0, 256}
    /\ last.data.force = {}

\* A request the fast path takes: besides, a format the server knows, no filt
\* parameter and no corrections for the layer.
TmsServed ==
    /\ FastAsListed
    /\ last.data.format \in MimeTypes
    /\ last.data.filt = ""
    /\ ~last.corr

\* The image file of the requested tile, in the cache directory before the call.
TileFilePath ==
    Path(conf_layers[last.data.layers[1]].prefix, last.data.z, last.data.y, last.data.x, "ext")
TileFileCached == os_path_exists(last.pre, TileFilePath)

\* The call asked the upstream for a tile.
AskedUpstream == \E i \in 1 .. Len(last.log) : last.log[i][1] = "fetch"

\* The answer is the cached file as it is: no lookup by the engine, nothing
\* rendered, nothing written.
PassedThrough ==
    /\ last.resp.kind = "response" /\ last.resp.status = 200
    /\ last.resp.body = os_stat(last.pre, TileFilePath).content
    /\ last.log = <<>> /\ last.img = NoTile.px
    /\ tiles_cache = last.pre

\* C15 as stated: a request on the fast path for a tile whose image file is not
\* cached is answered 404, with no upstream request and nothing written.
C15_AsStated ==
    (Served /\ TmsServed /\ ~TileFileCached) =>
        /\ last.resp.kind = "response" /\ last.resp.status = 404
        /\ ~AskedUpstream
        /\ tiles_cache = last.pre

C17_AsStated ==
    (Served /\ UnknownLayer) =>
        /\ last.resp.kind = "response"
        /\ last.resp.status \in {500, 404}
        /\ last.resp.body = Text

-----------------------------------------------------------------------------
(* The glue of the four tiles of the next zoom (twms.py 466-504) *)

\* Where im.paste puts im1 .. im4 on the 512x512 canvas (lines 490-493).
paste_at == <<<<0, 0>>, <<256, 0>>, <<0, 256>>, <<256, 256>>>>

\* The tile (z + 1, 2x + dx, 2y + dy) under the requested tile, as tile_image
\* gives it on the cache directory the call started on.
ChildTile(dx, dy) ==
    tile_image(last.env, last.pre, TheLayer, last.z + 1,
               2 * last.x + dx, 2 * last.y + dy, FALSE, TRUE, FALSE)

AllChildrenAvailable ==
    \A dx \in {0, 1}, dy \in {0, 1} : ChildTile(dx, dy).ret.some

\* The requested tile has no copy in the cache: no image file, no saved glue
\* and no entry in RAM.
OwnPath(suffix) == Path(TheLayer.prefix, last.z - 1, last.y, last.x, suffix)
OwnTileCached ==
    \/ os_path_exists(last.pre, OwnPath("ext"))
    \/ os_path_exists(last.pre, OwnPath("ups.ext"))
    \/ \E c \in last.env.ram : c.key = <<TheLayer.prefix, last.z, last.x, last.y>>

\* A tile_image call for a tile of a scalable layer below max_zoom that is not
\* in the cache.
GlueCase ==
    TileImaged /\ TheLayer.scalable /\ last.z < TheLayer.max_zoom /\ ~OwnTileCached

\* The call returned the four children painted at their offsets and halved.
GlueReturned ==
    /\ last.ret.some
    /\ last.ret.px.kind = "glue"
    /\ \A i \in 1 .. 4 :
           last.ret.px.parts[i] =
               ChildTile(paste_at[i][1] \div 256, paste_at[i][2] \div 256).ret.px

\* The call made no tile by gluing: it returned none and saved none.
NoGlueMade ==
    /\ last.ret.some => last.ret.px.kind # "glue"
    /\ ~os_path_exists(tiles_cache, OwnPath("ups.ext"))

\* The tile has a tne mark or a lock in the cache directory.
OwnTileMarked ==
    os_path_exists(last.pre, OwnPath("tne")) \/ os_path_exists(last.pre, OwnPath("lock"))

\* C21 as stated: for a scalable layer and z < max_zoom, a tile that is not in
\* the cache and whose four children are all available is returned as the
\* children painted at (256*dx, 256*dy) and halved; with a child unavailable
\* no glued tile is made.
C21_AsStated ==
    GlueCase =>
        /\ AllChildrenAvailable => GlueReturned
        /\ ~AllChildrenAvailable => NoGlueMade

-----------------------------------------------------------------------------
(* Request threads.  __main__.py serves with ThreadingHTTPServer and every   *)
(* GetHandler shares the one engine object (GetHandler.TWMS), so getimg and  *)
(* tile_image run in several threads on the same cached_objs,                *)
(* cached_hist_list and fetchers_pool, with no lock in between.  A step of a *)
(* thread is one operation on a shared dict or list.                         *)

Threads == {1, 2}

\* Requests a thread serves one after the other, at most.
MaxRequests == 2

\* The tiles the threads ask for, <<layer, z, x, y>>.
ThreadRequests == {<<"osm", 1, 0, 0>>, <<"osm", 2, 1, 1>>, <<"west", 2, 0, 0>>}

\* A thread between two requests.
IdleThread ==
    [pc |-> "idle", layer |-> "", key |-> <<>>, served_by |-> "", popped |-> <<>>,
     exc |-> "", served |-> 0, made |-> <<>>]

\* The tile a thread holds once tile_image has returned one with is_ok set.
ThreadTile(key) == Tile(Px("upstream", key[1], <<key[2], key[3], key[4]>>, <<>>), TRUE, TRUE)

InitThreads ==
    /\ layer_id = "yamapng"
    /\ remote_url = Url("config", 0)
    /\ cache = [key \in Tiles |-> Absent]
    /\ now = 0
    /\ last = Idle
    /\ tiles_cache = [files |-> {}, dirs |-> {}]
    /\ cached_objs = {}
    /\ cached_hist_list = <<>>
    /\ fetchers_pool = ""
    /\ threads = [t \in Threads |-> IdleThread]
    /\ file_blocks = NoBlocks

\* What a step of thread t leaves alone besides the shared dicts and lists.
ThreadFrame == UNCHANGED <<layer_id, remote_url, cache, now, last, tiles_cache, file_blocks>>

ThreadGoto(t, pc) == threads' = [threads EXCEPT ![t].pc = pc]
ThreadRaise(t, exc) == threads' = [threads EXCEPT ![t].pc = "raised", ![t].exc = exc]
ThreadReturn(t) == threads' = [threads EXCEPT ![t].pc = "idle", ![t].served = @ + 1]

InRam(key) == \E c \in cached_objs : c.key = key

\* A request arrives: getimg calls tile_image(layer, zoom, x, y, real=True).
ThreadStart(t) ==
    /\ threads[t].pc = "idle"
    /\ threads[t].served < MaxRequests
    /\ \E r \in ThreadRequests :
           threads' = [threads EXCEPT ![t].pc = "pool", ![t].layer = r[1],
                                      ![t].key = <<conf_layers[r[1]].prefix, r[2], r[3], r[4]>>,
                                      ![t].served_by = "", ![t].popped = <<>>]
    /\ UNCHANGED <<cached_objs, cached_hist_list, fetchers_pool>>
    /\ ThreadFrame

\* twms.py 422-423: no layer's prefix is the string 'prefix', the only key the
\* pool ever has, so a new TileFetcher(layer) is stored under 'prefix'.
PoolStore(t) ==
    /\ threads[t].pc = "pool"
    /\ fetchers_pool' = conf_layers[threads[t].layer].prefix
    /\ threads' = [threads EXCEPT ![t].pc = "lookup",
                                  ![t].made = Append(@, conf_layers[threads[t].layer].prefix)]
    /\ UNCHANGED <<cached_objs, cached_hist_list>>
    /\ ThreadFrame

\* twms.py 435: (prefix, z, x, y) in self.cached_objs
RamLookup(t) ==
    /\ threads[t].pc = "lookup"
    /\ ThreadGoto(t, IF InRam(threads[t].key) THEN "lookup_get" ELSE "fetch")
    /\ UNCHANGED <<cached_objs, cached_hist_list, fetchers_pool>>
    /\ ThreadFrame

\* twms.py 436: return self.cached_objs[(prefix, z, x, y)]
RamGet(t) ==
    /\ threads[t].pc = "lookup_get"
    /\ IF InRam(threads[t].key) THEN ThreadGoto(t, "check") ELSE ThreadRaise(t, "KeyError")
    /\ UNCHANGED <<cached_objs, cached_hist_list, fetchers_pool>>
    /\ ThreadFrame

\* twms.py 510 and 542: self.fetchers_pool['prefix'].fetch(z, x, y), by the
\* fetcher the pool holds at that moment; the upstream has the tile or not.
PoolFetch(t) ==
    /\ threads[t].pc = "fetch"
    /\ \E got \in BOOLEAN :
           threads' = [threads EXCEPT ![t].served_by = fetchers_pool,
                                      ![t].pc = IF got THEN "check" ELSE "none"]
    /\ UNCHANGED <<cached_objs, cached_hist_list, fetchers_pool>>
    /\ ThreadFrame

\* twms.py 364, 375-378: no tile, empty_color is painted.
NoTilePainted(t) ==
    /\ threads[t].pc = "none"
    /\ ThreadReturn(t)
    /\ UNCHANGED <<cached_objs, cached_hist_list, fetchers_pool>>
    /\ ThreadFrame

\* twms.py 365: (prefix, zoom, x, y) not in self.cached_objs
RamCheck(t) ==
    /\ threads[t].pc = "check"
    /\ ThreadGoto(t, IF InRam(threads[t].key) THEN "len" ELSE "insert")
    /\ UNCHANGED <<cached_objs, cached_hist_list, fetchers_pool>>
    /\ ThreadFrame

\* twms.py 367: self.cached_objs[(prefix, zoom, x, y)] = im1
RamInsert(t) ==
    /\ threads[t].pc = "insert"
    /\ cached_objs' = {c \in cached_objs : c.key # threads[t].key}
                          \cup {RamEntry(threads[t].key, ThreadTile(threads[t].key))}
    /\ ThreadGoto(t, "append")
    /\ UNCHANGED <<cached_hist_list, fetchers_pool>>
    /\ ThreadFrame

\* twms.py 368: self.cached_hist_list.append((prefix, zoom, x, y))
HistAppend(t) ==
    /\ threads[t].pc = "append"
    /\ cached_hist_list' = Append(cached_hist_list, threads[t].key)
    /\ ThreadGoto(t, "len")
    /\ UNCHANGED <<cached_objs, fetchers_pool>>
    /\ ThreadFrame

\* twms.py 371: len(self.cached_objs) >= config.max_ram_cached_tiles
RamLen(t) ==
    /\ threads[t].pc = "len"
    /\ IF Cardinality(cached_objs) >= max_ram_cached_tiles THEN ThreadGoto(t, "pop") ELSE ThreadReturn(t)
    /\ UNCHANGED <<cached_objs, cached_hist_list, fetchers_pool>>
    /\ ThreadFrame

\* A pop that takes the newest key of the history.
HistPop_newest(t) ==
    /\ threads[t].pc = "pop"
    /\ IF cached_hist_list = <<>>
       THEN /\ ThreadRaise(t, "IndexError")
            /\ UNCHANGED cached_hist_list
       ELSE /\ threads' = [threads EXCEPT ![t].pc = "del",
                                          ![t].popped = cached_hist_list[Len(cached_hist_list)]]
            /\ cached_hist_list' = SubSeq(cached_hist_list, 1, Len(cached_hist_list) - 1)
    /\ UNCHANGED <<cached_objs, fetchers_pool>>
    /\ ThreadFrame

\* twms.py 372: self.cached_hist_list.pop(0)
HistPop(t) ==
    /\ threads[t].pc = "pop"
    /\ IF cached_hist_list = <<>>
       THEN /\ ThreadRaise(t, "IndexError")
            /\ UNCHANGED cached_hist_list
       ELSE /\ threads' = [threads EXCEPT ![t].pc = "del", ![t].popped = Head(cached_hist_list)]
            /\ cached_hist_list' = Tail(cached_hist_list)
    /\ UNCHANGED <<cached_objs, fetchers_pool>>
    /\ ThreadFrame

\* twms.py 372: del self.cached_objs[...]
RamDel(t) ==
    /\ threads[t].pc = "del"
    /\ IF InRam(threads[t].popped)
       THEN /\ cached_objs' = {c \in cached_objs : c.key # threads[t].popped}
            /\ ThreadReturn(t)
       ELSE /\ ThreadRaise(t, "KeyError")
            /\ UNCHANGED cached_objs
    /\ UNCHANGED <<cached_hist_list, fetchers_pool>>
    /\ ThreadFrame

NextThreads ==
    \E t \in Threads :
        \/ ThreadStart(t) \/ PoolStore(t) \/ RamLookup(t) \/ RamGet(t) \/ PoolFetch(t)
        \/ NoTilePainted(t) \/ RamCheck(t) \/ RamInsert(t) \/ HistAppend(t)
        \/ RamLen(t) \/ HistPop(t) \/ RamDel(t)

SpecThreads == InitThreads /\ [][NextThreads]_vars

-----------------------------------------------------------------------------
(* Properties of the shared RAM cache and the fetcher pool *)

\* The state is one of the request threads.
Threaded == threads # NoThreads

\* Some operation of a thread failed.
ThreadFailed == \E t \in Threads : threads[t].pc = "raised"

\* Every key of the eviction history is in the tile map, and is in the history
\* once.
HistoryMatchesMap ==
    \A i \in 1 .. Len(cached_hist_list) :
        /\ InRam(cached_hist_list[i])
        /\ \A j \in 1 .. Len(cached_hist_list) : cached_hist_list[j] = cached_hist_list[i] => j = i

\* No thread is between two steps of a request.
Quiescent == \A t \in Threads : threads[t].pc \in {"idle", "raised"}

\* Only one thread has served or is serving requests.
OneThreadOnly == \E t \in Threads : threads[t] = IdleThread

\* C22 as stated: under any interleaving of request threads no operation on the
\* RAM cache fails, and whenever no thread is in the middle of a request every
\* key of the eviction history is in the tile map exactly once.
C22_AsStated ==
    Threaded => (~ThreadFailed /\ (Quiescent => HistoryMatchesMap))

\* The TileFetcher objects built for the layer with this prefix, by any thread.
FetchersMade(prefix) ==
    {<<t, i>> \in Threads \X (1 .. MaxRequests) :
         i <= Len(threads[t].made) /\ threads[t].made[i] = prefix}

\* A layer has at most one TileFetcher, built once and kept.
OneFetcherPerLayer ==
    \A id \in ConfLayerIds : Cardinality(FetchersMade(conf_layers[id].prefix)) <= 1

\* Every fetch was made by the fetcher of the layer of the request.
ServedByOwnFetcher ==
    \A t \in Threads :
        threads[t].served_by # "" => threads[t].served_by = conf_layers[threads[t].layer].prefix

\* C23 as stated: a layer has exactly one TileFetcher, built on first use and
\* used by every later request of the layer, and under any interleaving a fetch
\* for a layer is made by that layer's own fetcher.
C23_AsStated ==
    Threaded => (OneFetcherPerLayer /\ ServedByOwnFetcher)

-----------------------------------------------------------------------------
(* TileFile.set at the level of the filesystem (fetchers.py 89-99).          *)
(* Path.write_bytes(blob) is open(path, "wb"), which creates the file or     *)
(* cuts it to length 0, then write, which puts the blob's blocks at offsets  *)
(* 0, 1, .. of the file, then close.  A fetcher's worker threads and the     *)
(* request threads run set() and read the file with nothing in between.     *)

\* Blocks a blob is written in.
BlocksPerBlob == 2

\* The threads that call set(blob), each with a blob of its own, and the thread
\* that reads the file.
Writers == {1, 2}
Readers == {3}
BlobOf(t) == IF t = 1 THEN "A" ELSE "B"

\* The blocks of a file that holds the blob and nothing else.
Complete(blob) == [k \in 1 .. BlocksPerBlob |-> <<blob, k>>]

\* A file after block k of the blob was written at offset k - 1.
write_block(blocks, blob, k) ==
    [i \in 1 .. (IF Len(blocks) > k THEN Len(blocks) ELSE k) |->
        IF i = k THEN <<blob, k>>
        ELSE IF i <= Len(blocks) THEN blocks[i]
        ELSE <<"hole", i>>]

\* What a reader has seen of the file.
NothingSeen == [read |-> FALSE, exists |-> FALSE, blocks |-> <<>>]

StartThread == [pc |-> "start", written |-> 0, seen |-> NothingSeen]

\* The file before the calls: absent, absent with a tne mark beside it, or the
\* complete file of an earlier fetch.
InitWrite ==
    /\ layer_id = "yamapng"
    /\ remote_url = Url("config", 0)
    /\ cache = [key \in Tiles |-> Absent]
    /\ now = 0
    /\ last = Idle
    /\ tiles_cache = [files |-> {}, dirs |-> {}]
    /\ cached_objs = {}
    /\ cached_hist_list = <<>>
    /\ fetchers_pool = ""
    /\ threads = [t \in Writers \cup Readers |-> StartThread]
    /\ file_blocks \in {NoBlocks,
                        [exists |-> FALSE, blocks |-> <<>>, tne |-> TRUE],
                        [exists |-> TRUE, blocks |-> Complete("P"), tne |-> FALSE]}

WriteFrame ==
    UNCHANGED <<layer_id, remote_url, cache, now, last, tiles_cache, cached_objs,
                cached_hist_list, fetchers_pool>>

\* fetchers.py 98, first half: open(self.path, "wb")
SetOpen(t) ==
    /\ t \in Writers
    /\ threads[t].pc = "start"
    /\ file_blocks' = [file_blocks EXCEPT !.exists = TRUE, !.blocks = <<>>]
    /\ threads' = [threads EXCEPT ![t].pc = "write"]
    /\ WriteFrame

\* fetchers.py 98, second half: the next block of the blob is written.
SetWrite(t) ==
    /\ t \in Writers
    /\ threads[t].pc = "write"
    /\ file_blocks' = [file_blocks EXCEPT
                          !.blocks = write_block(@, BlobOf(t), threads[t].written + 1)]
    /\ threads' = [threads EXCEPT ![t].written = @ + 1,
                                  ![t].pc = IF threads[t].written + 1 = BlocksPerBlob
                                            THEN "unlink" ELSE "write"]
    /\ WriteFrame

\* fetchers.py 99: self.path_tne.unlink(missing_ok=True)
SetUnlinkTne(t) ==
    /\ t \in Writers
    /\ threads[t].pc = "unlink"
    /\ file_blocks' = [file_blocks EXCEPT !.tne = FALSE]
    /\ threads' = [threads EXCEPT ![t].pc = "done"]
    /\ WriteFrame

\* fetchers.py 410: tile.exists()
ReadExists(t) ==
    /\ t \in Readers
    /\ threads[t].pc = "start"
    /\ threads' = [threads EXCEPT
                      ![t].pc = IF file_blocks.exists THEN "read" ELSE "done",
                      ![t].seen = IF file_blocks.exists THEN @
                                  ELSE [read |-> TRUE, exists |-> FALSE, blocks |-> <<>>]]
    /\ UNCHANGED file_blocks
    /\ WriteFrame

\* fetchers.py 412-414: PIL.Image.open(tile.get()) and im.load() read the file.
ReadBytes(t) ==
    /\ t \in Readers
    /\ threads[t].pc = "read"
    /\ threads' = [threads EXCEPT
                      ![t].pc = "done",
                      ![t].seen = [read |-> TRUE, exists |-> TRUE, blocks |-> file_blocks.blocks]]
    /\ UNCHANGED file_blocks
    /\ WriteFrame

NextWrite ==
    \E t \in Writers \cup Readers :
        SetOpen(t) \/ SetWrite(t) \/ SetUnlinkTne(t) \/ ReadExists(t) \/ ReadBytes(t)

SpecWrite == InitWrite /\ [][NextWrite]_vars

-----------------------------------------------------------------------------
(* Properties of the file under concurrent set() and reads *)

\* The state is one of the block-level view.
Writing == threads # NoThreads /\ DOMAIN threads = Writers \cup Readers

\* A file that is whole: the file of an earlier fetch or the blob of a writer.
WholeFiles == {Complete("P")} \cup {Complete(BlobOf(t)) : t \in Writers}

\* What the reader saw was no file or a whole file.
SawWholeOrNothing ==
    \A t \in Readers :
        (threads[t].seen.read /\ threads[t].seen.exists) => threads[t].seen.blocks \in WholeFiles

\* Every writer has returned from set().
WritersDone == \A t \in Writers : threads[t].pc = "done"

\* The file holds the blob of one of the writers.
HoldsOneBlob == file_blocks.exists /\ file_blocks.blocks \in {Complete(BlobOf(t)) : t \in Writers}

\* C24 as stated: under any interleaving a reader of a tile file that is being
\* written sees the whole previous file, the whole new file or no file, never an
\* empty or partly written one, and once the concurrent writers have finished
\* the file holds exactly the bytes of one of them.
C24_AsStated ==
    Writing => (SawWholeOrNothing /\ (WritersDone => HoldsOneBlob))

-----------------------------------------------------------------------------
(* Files the engine removes *)

\* The image files and tne marks of a cache directory.
CacheEntries(D) == {f.path : f \in {g \in D.files : g.path[5] \in {"ext", "tne"}}}

\* C25 as stated: tile_image removes no image file and no tne mark from the
\* cache directory (it writes no image file, so nothing is overwritten either).
C25_AsStated ==
    TileImaged => CacheEntries(last.pre) \subseteq CacheEntries(tiles_cache)

-----------------------------------------------------------------------------
(* Where a tile's files are: the fetcher's TileFile and the engine's local *)

\* Tiles of zoom 0..MaxPathZoom have their paths compared.
MaxPathZoom == 1

\* One path component: the letters before the number, the number, the letters
\* after it ("z3" is <<"z", 3, "">>, "5.png" is <<"", 5, ".png">>).
Component(before, n, after) == <<before, n, after>>

\* Two layers of config.py, one per stored format.  "ext" is the key twms.py
\* reads: the extension of the same format, without the dot.
path_layers ==
    [yamapng |-> [prefix |-> "yamapng", mimetype |-> "image/png", ext |-> "png"],
     sat |-> [prefix |-> "sat", mimetype |-> "image/jpeg", ext |-> "jpg"]]

\* mimetypes.guess_extension(mimetype)
guess_extension(mimetype) ==
    CASE mimetype = "image/png" -> ".png"
      [] mimetype = "image/jpeg" -> ".jpg"

\* "." + ext, the end of local + ext
dot_ext(ext) ==
    CASE ext = "png" -> ".png"
      [] ext = "jpg" -> ".jpg"

\* TileFile.path: prefix / f"{z}/{x}/{y}{ext}", below cache_dir
TileFile_path(L, z, x, y) ==
    <<L.prefix, Component("", z, ""), Component("", x, ""),
      Component("", y, guess_extension(L.mimetype))>>

\* TileFile.path_tne: prefix / f"{z}/{x}/{y}.tne"
TileFile_path_tne(L, z, x, y) ==
    <<L.prefix, Component("", z, ""), Component("", x, ""), Component("", y, ".tne")>>

\* tile_image: local + ext, with local = tiles_cache + prefix +
\* "/z{z-1}/{y}/{x}." for the engine's z, which counts from 1
engine_file(L, z, x, y) ==
    <<L.prefix, Component("z", z - 1, ""), Component("", y, ""),
      Component("", x, dot_ext(L.ext))>>

\* tile_image: local + "tne"
engine_tne(L, z, x, y) ==
    <<L.prefix, Component("z", z - 1, ""), Component("", y, ""), Component("", x, ".tne")>>

\* The handler's fast path: local + "" + ext, local built by the same format
fast_path_file(L, z, x, y) ==
    <<L.prefix, Component("z", z - 1, ""), Component("", y, ""),
      Component("", x, dot_ext(L.ext))>>

\* The keys (layer, z, x, y) of the tile pyramid, z counting from 0.
PathKeys ==
    {<<l, z, x, y>> : l \in DOMAIN path_layers, z \in 0..MaxPathZoom,
                      x \in 0..(2 ^ MaxPathZoom - 1),
                      y \in 0..(2 ^ MaxPathZoom - 1)}
PyramidKeys == {k \in PathKeys : k[3] < 2 ^ k[2] /\ k[4] < 2 ^ k[2]}

\* The files of one key as each component names them.  The fetcher is given
\* the key's z; the engine and the fast path are given z + 1 by the handler.
paths_of(k) ==
    [fetcher |-> TileFile_path(path_layers[k[1]], k[2], k[3], k[4]),
     fetcher_tne |-> TileFile_path_tne(path_layers[k[1]], k[2], k[3], k[4]),
     engine |-> engine_file(path_layers[k[1]], k[2] + 1, k[3], k[4]),
     engine_tne |-> engine_tne(path_layers[k[1]], k[2] + 1, k[3], k[4]),
     fast |-> fast_path_file(path_layers[k[1]], k[2] + 1, k[3], k[4])]

InitPath ==
    /\ layer_id = "yamapng"
    /\ remote_url = Url("config", 0)
    /\ cache = [key \in Tiles |-> Absent]
    /\ now = 0
    /\ last = Idle
    /\ EngineIdle

\* Two keys are addressed by the fetcher, the engine and the fast path.
PathCall ==
    \E k1 \in PyramidKeys, k2 \in PyramidKeys :
        /\ last' = [op |-> "path", key1 |-> k1, key2 |-> k2,
                    of1 |-> paths_of(k1), of2 |-> paths_of(k2)]
        /\ UNCHANGED <<layer_id, remote_url, cache, now, engine_vars>>

NextPath == PathCall

SpecPath == InitPath /\ [][NextPath]_vars

PathCalled == last.op = "path"

\* The layout the components are said to share.
LayoutFile(k) ==
    <<k[1], Component("", k[2], ""), Component("", k[3], ""),
      Component("", k[4], guess_extension(path_layers[k[1]].mimetype))>>
LayoutTne(k) ==
    <<k[1], Component("", k[2], ""), Component("", k[3], ""), Component("", k[4], ".tne")>>

FetcherFollowsLayout ==
    /\ last.of1.fetcher = LayoutFile(last.key1)
    /\ last.of1.fetcher_tne = LayoutTne(last.key1)
EngineFollowsLayout ==
    /\ last.of1.engine = LayoutFile(last.key1)
    /\ last.of1.engine_tne = LayoutTne(last.key1)
FastPathFollowsLayout == last.of1.fast = LayoutFile(last.key1)
EngineReadsWhatFetcherWrites ==
    /\ last.of1.engine = last.of1.fetcher
    /\ last.of1.fast = last.of1.fetcher
    /\ last.of1.engine_tne = last.of1.fetcher_tne
FilesOf(p) == {p.fetcher, p.fetcher_tne, p.engine, p.engine_tne, p.fast}
DistinctKeysDistinctFiles ==
    last.key1 # last.key2 => FilesOf(last.of1) \cap FilesOf(last.of2) = {}

\* C26: every component addresses a key's entry through <layer_id>/<z>/<x>/<y><ext>
\* (marker <z>/<x>/<y>.tne): the file the fetcher writes for a key is the file
\* the engine's disk lookup and the fast path read for it, and two distinct
\* keys never share a file.
C26_AsStated ==
    PathCalled => /\ FetcherFollowsLayout
                  /\ EngineFollowsLayout
                  /\ FastPathFollowsLayout
                  /\ EngineReadsWhatFetcherWrites
                  /\ DistinctKeysDistinctFiles

-----------------------------------------------------------------------------
(* tile_to_quadkey: the Bing quadkey of a tile *)

\* Every tile number 0..2^MaxQuadZoom - 1 is tried at every zoom 0..MaxQuadZoom.
MaxQuadZoom == 3

\* chr(digit) for the four digits the loop can build from ord("0") = 48.
chr(digit) ==
    CASE digit = 48 -> "0"
      [] digit = 49 -> "1"
      [] digit = 50 -> "2"
      [] digit = 51 -> "3"

\* "(n & mask) != 0" for a mask with one bit set
masked(n, mask) == (n \div mask) % 2 = 1

\* One pass of the loop body: the digit for "bit".
quadkey_digit(bit, x, y) ==
    48 + (IF masked(x, 2 ^ (bit - 1)) THEN 1 ELSE 0)
       + (IF masked(y, 2 ^ (bit - 1)) THEN 2 ELSE 0)

\* "for i in range(z)": the list of characters after the passes i..z-1.
RECURSIVE quadkey_loop(_, _, _, _, _)
quadkey_loop(z, x, y, i, quadkey) ==
    IF i >= z THEN quadkey
    ELSE quadkey_loop(z, x, y, i + 1, Append(quadkey, chr(quadkey_digit(z - i, x, y))))

\* A quadkey that takes the column for the row.
tile_to_quadkey_transposed(z, x, y) == quadkey_loop(z, y, x, 0, <<>>)

\* tile_to_quadkey(z, x, y): the string as the sequence of its characters
tile_to_quadkey(z, x, y) == quadkey_loop(z, x, y, 0, <<>>)

\* The doctest tiles, and every tile number of up to MaxQuadZoom bits at every
\* zoom up to MaxQuadZoom.
QuadTiles ==
    {<<z, x, y>> : z \in 0..MaxQuadZoom, x \in 0..(2 ^ MaxQuadZoom - 1),
                   y \in 0..(2 ^ MaxQuadZoom - 1)}
    \cup {<<1, 0, 0>>, <<4, 9, 5>>, <<16, 38354, 20861>>}

InitQuadkey ==
    /\ layer_id = "yamapng"
    /\ remote_url = Url("config", 0)
    /\ cache = [key \in Tiles |-> Absent]
    /\ now = 0
    /\ last = Idle
    /\ EngineIdle

QuadkeyCall ==
    \E t \in QuadTiles :
        /\ last' = [op |-> "tile_to_quadkey", z |-> t[1], x |-> t[2], y |-> t[3],
                    ret |-> tile_to_quadkey(t[1], t[2], t[3])]
        /\ UNCHANGED <<layer_id, remote_url, cache, now, engine_vars>>

NextQuadkey == QuadkeyCall

SpecQuadkey == InitQuadkey /\ [][NextQuadkey]_vars

QuadkeyCalled == last.op = "tile_to_quadkey"

\* Bit k of n, the lowest being bit 0.
BitOf(n, k) == (n \div 2 ^ k) % 2

Base4 == <<"0", "1", "2", "3">>

QuadkeyOf(z, x, y, digits) ==
    (last.z = z /\ last.x = x /\ last.y = y) => last.ret = digits

\* C27: tile_to_quadkey(z, x, y) is z base-4 digits, the i-th from the left
\* (i = 1..z) being bit (z-i) of x plus twice bit (z-i) of y; it is "0" for
\* (1,0,0), "1203" for (4,9,5), "1203010313232212" for (16,38354,20861).
C27_QuadkeyInterleavesBits ==
    QuadkeyCalled =>
        /\ Len(last.ret) = last.z
        /\ \A i \in 1..last.z :
               last.ret[i] = Base4[BitOf(last.x, last.z - i)
                                   + 2 * BitOf(last.y, last.z - i) + 1]
        /\ QuadkeyOf(1, 0, 0, <<"0">>)
        /\ QuadkeyOf(4, 9, 5, <<"1", "2", "0", "3">>)
        /\ QuadkeyOf(16, 38354, 20861,
                     <<"1", "2", "0", "3", "0", "1", "0", "3",
                       "1", "3", "2", "3", "2", "2", "1", "2">>)

C27_Witness ==
    /\ QuadkeyCalled
    /\ last.z = 16 /\ last.x = 38354 /\ last.y = 20861
    /\ last.ret = <<"1", "2", "0", "3", "0", "1", "0", "3",
                    "1", "3", "2", "3", "2", "2", "1", "2">>

-----------------------------------------------------------------------------
(* tile_slippy_to_tms and the placeholders of remote_url *)

\* Tiles of zoom 0..MaxTmsZoom are converted and asked of every layer.
MaxTmsZoom == 3

\* A piece of a URL: literal text, a placeholder still to be replaced, the
\* decimal string of a number, or a quadkey.
Literal(s) == [kind |-> "text", text |-> s, n |-> 0, chars |-> <<>>]
Placeholder(s) == [kind |-> "placeholder", text |-> s, n |-> 0, chars |-> <<>>]

\* str(n)
str(n) == [kind |-> "number", text |-> "", n |-> n, chars |-> <<>>]

\* The quadkey string as a piece of a URL.
Quadkey(chars) == [kind |-> "quadkey", text |-> "", n |-> 0, chars |-> chars]

\* remote.replace(placeholder, piece)
replace(remote, placeholder, piece) ==
    [i \in DOMAIN remote |->
        IF remote[i] = Placeholder(placeholder) THEN piece ELSE remote[i]]

\* placeholder in remote
contains(remote, placeholder) ==
    \E i \in DOMAIN remote : remote[i] = Placeholder(placeholder)

\* Layers by the placeholders of their remote_url, as config.py writes them:
\* "{z}/{x}/{y}", "{z}/{x}/{-y}", the same behind a transform_tile_number
\* that lowers the zoom (by 1 here, by 6 or 8 in config.py), and "a{q}.jpeg".
\* "transform_tile_number" is the set of the zoom shifts: {} without the key.
url_layers ==
    [xyz |-> [remote_url |-> <<Literal("https://a/"), Placeholder("{z}"), Literal("/"),
                               Placeholder("{x}"), Literal("/"), Placeholder("{y}"),
                               Literal(".png")>>,
              transform_tile_number |-> {}, min_zoom |-> 0],
     tms |-> [remote_url |-> <<Literal("https://b/"), Placeholder("{z}"), Literal("/"),
                               Placeholder("{x}"), Literal("/"), Placeholder("{-y}"),
                               Literal(".jpg")>>,
              transform_tile_number |-> {}, min_zoom |-> 0],
     shifted |-> [remote_url |-> <<Literal("https://c/"), Placeholder("{z}"), Literal("/"),
                                   Placeholder("{x}"), Literal("/"), Placeholder("{-y}"),
                                   Literal(".jpg")>>,
                  transform_tile_number |-> {1}, min_zoom |-> 1],
     vesat |-> [remote_url |-> <<Literal("https://d/a"), Placeholder("{q}"),
                                 Literal(".jpeg?g=0")>>,
                transform_tile_number |-> {}, min_zoom |-> 1]]

\* self.layer["transform_tile_number"](z, x, y), or (z, x, y) without the key
transform_tile_number(L, z, x, y) ==
    IF L.transform_tile_number = {} THEN <<z, x, y>>
    ELSE <<z - (CHOOSE d \in L.transform_tile_number : TRUE), x, y>>

\* A conversion that is one row off.
tile_slippy_to_tms_one_off(z, x, y) == <<z, x, 2 ^ z - y>>

\* tile_slippy_to_tms(z, x, y)
tile_slippy_to_tms(z, x, y) == <<z, x, 2 ^ z - y - 1>>

\* TileFetcher.tms, the placeholder substitution: "{z}", "{x}", "{y}", then
\* "{-y}" when the template has it, then "{q}".
substitute_minus_y(remote, trans) ==
    IF contains(remote, "{-y}")
    THEN replace(remote, "{-y}", str(tile_slippy_to_tms(trans[1], trans[2], trans[3])[3]))
    ELSE remote
substitute_zxy(remote, trans) ==
    replace(replace(replace(remote, "{z}", str(trans[1])), "{x}", str(trans[2])),
            "{y}", str(trans[3]))
substitute(remote, trans) ==
    replace(substitute_minus_y(substitute_zxy(remote, trans), trans), "{q}",
            Quadkey(tile_to_quadkey(trans[1], trans[2], trans[3])))
remote_of(L, z, x, y) == substitute(L.remote_url, transform_tile_number(L, z, x, y))

\* The tiles of the pyramid up to MaxTmsZoom, and the doctest tiles.
TmsTiles ==
    {t \in {<<z, x, y>> : z \in 0..MaxTmsZoom, x \in 0..(2 ^ MaxTmsZoom - 1),
                          y \in 0..(2 ^ MaxTmsZoom - 1)} :
        t[2] < 2 ^ t[1] /\ t[3] < 2 ^ t[1]}
    \cup {<<4, 3, 2>>, <<10, 10, 10>>}

InitTms ==
    /\ layer_id = "yamapng"
    /\ remote_url = Url("config", 0)
    /\ cache = [key \in Tiles |-> Absent]
    /\ now = 0
    /\ last = Idle
    /\ EngineIdle

\* tile_slippy_to_tms(z, x, y), and the conversion of what it returned
SlippyToTmsCall ==
    \E t \in TmsTiles :
        LET ret == tile_slippy_to_tms(t[1], t[2], t[3]) IN
        /\ last' = [op |-> "tile_slippy_to_tms", z |-> t[1], x |-> t[2], y |-> t[3],
                    ret |-> ret, twice |-> tile_slippy_to_tms(ret[1], ret[2], ret[3])]
        /\ UNCHANGED <<layer_id, remote_url, cache, now, engine_vars>>

\* TileFetcher.tms builds the URL of a tile inside the layer's zoom range.
RemoteCall ==
    \E l \in DOMAIN url_layers, t \in TmsTiles :
        /\ t[1] >= url_layers[l].min_zoom
        /\ last' = [op |-> "remote", layer |-> l, z |-> t[1], x |-> t[2], y |-> t[3],
                    ret |-> remote_of(url_layers[l], t[1], t[2], t[3])]
        /\ UNCHANGED <<layer_id, remote_url, cache, now, engine_vars>>

NextTms == SlippyToTmsCall \/ RemoteCall

SpecTms == InitTms /\ [][NextTms]_vars

SlippyCalled == last.op = "tile_slippy_to_tms"
RemoteCalled == last.op = "remote"

TmsRowOf(z, x, y, row) ==
    (last.z = z /\ last.x = x /\ last.y = y) => last.ret[3] = row

\* The tile whose numbers go into the URL.
Transformed == transform_tile_number(url_layers[last.layer], last.z, last.x, last.y)

\* Where the template has "{-y}" the URL has the row counted from the other
\* end of the transformed zoom's grid, and no "{-y}" is left.
MinusYFromTransformed ==
    \A i \in DOMAIN last.ret :
        /\ last.ret[i] # Placeholder("{-y}")
        /\ url_layers[last.layer].remote_url[i] = Placeholder("{-y}")
               => last.ret[i] = str(2 ^ Transformed[1] - Transformed[3] - 1)

\* C28: tile_slippy_to_tms(z, x, y) = (z, x, 2^z - y - 1) for z >= 0 and
\* 0 <= y < 2^z (row 13 for (4,3,2), 1013 for (10,10,10)); the row stays in
\* [0, 2^z), converting twice gives the tile back, and "{-y}" is replaced with
\* this row of the transformed tile.
C28_SlippyToTms ==
    /\ SlippyCalled =>
           /\ last.ret = <<last.z, last.x, 2 ^ last.z - last.y - 1>>
           /\ last.ret[3] \in 0..(2 ^ last.z - 1)
           /\ last.twice = <<last.z, last.x, last.y>>
           /\ TmsRowOf(4, 3, 2, 13)
           /\ TmsRowOf(10, 10, 10, 1013)
    /\ RemoteCalled => MinusYFromTransformed

C28_Witness ==
    /\ RemoteCalled
    /\ last.layer = "shifted" /\ last.z = 2 /\ last.y = 0
    /\ last.ret[6] = str(1)

-----------------------------------------------------------------------------
(* normalize on its own *)

\* The rectangles given to normalize: longitudes inside and outside
\* [-180, 180], on either side of each other; latitudes in either order.
NormLons == {-560, -270, -190, -180, -10, 10, 181, 350}
NormLats == {<<60, 50>>, <<50, 60>>, <<-90, 90>>, <<45, 45>>}
NormBoxes == {<<a, bd[1], c, bd[2]>> : a \in NormLons, c \in NormLons, bd \in NormLats}

InitNormalize ==
    /\ layer_id = "yamapng"
    /\ remote_url = Url("config", 0)
    /\ cache = [key \in Tiles |-> Absent]
    /\ now = 0
    /\ last = Idle
    /\ EngineIdle

\* normalize(bbox), and normalize of the rectangle it returned
NormalizeCall ==
    \E bbox \in NormBoxes :
        LET ret == normalize(bbox) IN
        /\ last' = [op |-> "normalize", bbox |-> bbox, ret |-> ret,
                    twice |-> normalize(ret[1])]
        /\ UNCHANGED <<layer_id, remote_url, cache, now, engine_vars>>

NextNormalize == NormalizeCall

SpecNormalize == InitNormalize /\ [][NextNormalize]_vars

NormalizeCalled == last.op = "normalize"

LonsOrdered == last.ret[1][1] <= last.ret[1][3]
LatsOrdered == last.ret[1][2] <= last.ret[1][4]
FlipIffLatsReversed == last.ret[2] <=> last.bbox[2] > last.bbox[4]
LatsSwappedOnFlip ==
    last.ret[2] => (last.ret[1][2] = last.bbox[4] /\ last.ret[1][4] = last.bbox[2])
NormalizeExample ==
    last.bbox = <<10, 60, -10, 50>> => last.ret = <<(<<10, 50, 350, 60>>), TRUE>>
NormalizeIdempotent == last.twice = <<last.ret[1], FALSE>>

\* The western edge is at most one turn east of the eastern edge once the
\* loop has brought it to -180 or beyond.
WithinOneTurn == last.bbox[1] - last.bbox[3] <= 360

\* C29: normalize(bbox) returns, for every bbox, lon_min <= lon_max (after at
\* most one +360 of lon_max) and lat_min <= lat_max, flip_h exactly when the
\* input had lat_min > lat_max (the lats then swapped);
\* normalize((10,60,-10,50)) is ((10,50,350,60), true); normalising a
\* normalised bbox changes nothing and reports no flip.
C29_AsStated ==
    NormalizeCalled => /\ LonsOrdered
                       /\ LatsOrdered
                       /\ FlipIffLatsReversed
                       /\ LatsSwappedOnFlip
                       /\ NormalizeExample
                       /\ NormalizeIdempotent

-----------------------------------------------------------------------------
(* zoom_for_bbox on its own *)

\* max_zoom is tried from 1 to MaxZoomTried.
MaxZoomTried == 4

\* Normalised EPSG:4326 rectangles: the world, a quarter, wide ones and tall
\* ones, and one degree.
ZoomBoxes ==
    {<<-180, -90, 180, 90>>, <<0, 0, 90, 45>>, <<-180, 0, 180, 10>>,
     <<0, -90, 10, 90>>, <<0, 0, 1, 1>>, <<-90, -45, 90, 45>>}

\* The sides of the requested picture; 0 is a side left open.
ZoomSides == {0, 100, 256, 1000}

InitZoom ==
    /\ layer_id = "yamapng"
    /\ remote_url = Url("config", 0)
    /\ cache = [key \in Tiles |-> Absent]
    /\ now = 0
    /\ last = Idle
    /\ EngineIdle

\* zoom_for_bbox(bbox, (h, w), layer, min_zoom, max_zoom,
\*               (config.max_height, config.max_width))
ZoomForBboxCall ==
    \E bbox \in ZoomBoxes, h \in ZoomSides, w \in ZoomSides,
       min_zoom \in 1..3, max_zoom \in 1..MaxZoomTried :
        /\ last' = [op |-> "zoom_for_bbox", bbox |-> bbox, h |-> h, w |-> w,
                    min_zoom |-> min_zoom, max_zoom |-> max_zoom,
                    ret |-> zoom_for_bbox(bbox, h, w, min_zoom, max_zoom)]
        /\ UNCHANGED <<layer_id, remote_url, cache, now, engine_vars>>

NextZoom == ZoomForBboxCall

SpecZoom == InitZoom /\ [][NextZoom]_vars

ZoomCalled == last.op = "zoom_for_bbox"

\* The size in pixels of the tile grid of zoom i over the rectangle: its
\* width times 360 and its height times 360.
GridWidth(i) == (last.bbox[3] - last.bbox[1]) * (2 ^ i) * 256
GridHeight(i) == 2 * (last.bbox[4] - last.bbox[2]) * (2 ^ i) * 256

Larger(a, b) == IF a >= b THEN a ELSE b

\* Half of (max_H, max_W) is reached by the grid.
HalfOfMaxSize(i) ==
    \/ 2 * GridHeight(i) >= max_height * 360
    \/ 2 * GridWidth(i) >= max_width * 360

\* The grid's larger side is 0.9 of the request's larger side.
FitsLargerSide(i) ==
    \/ 10 * Larger(GridWidth(i), GridHeight(i)) >= 9 * Larger(last.w, last.h) * 360
    \/ HalfOfMaxSize(i)

\* One side of the grid is 0.9 of the same side of the request, a side of 0
\* not being looked at.
FitsOneSide(i) ==
    \/ last.w # 0 /\ 10 * GridWidth(i) >= 9 * last.w * 360
    \/ last.h # 0 /\ 10 * GridHeight(i) >= 9 * last.h * 360
    \/ HalfOfMaxSize(i)

ZoomsTried == {i \in last.min_zoom..(last.max_zoom - 1) : TRUE}

ResultInRange ==
    last.min_zoom <= last.max_zoom => last.ret \in last.min_zoom..last.max_zoom

\* C30 as stated: zoom_for_bbox returns the smallest z in [min_z, max_z) at
\* which the grid over the bbox measures at least 0.9*max(W,H) pixels, or at
\* least half of (max_H, max_W); max_z when there is none; so the result is in
\* [min_z, max_z] for min_z <= max_z.
C30_AsStated ==
    ZoomCalled =>
        /\ \A i \in ZoomsTried :
               (FitsLargerSide(i) /\ \A j \in ZoomsTried : j < i => ~FitsLargerSide(j))
                   => last.ret = i
        /\ (\A i \in ZoomsTried : ~FitsLargerSide(i)) => last.ret = last.max_zoom
        /\ ResultInRange

\* C30, amended: zoom_for_bbox returns the smallest z in [min_z, max_z) at
\* which the grid's width is at least 0.9*W (W not 0), or its height at least
\* 0.9*H (H not 0), or its height at least half of max_H, or its width at
\* least half of max_W; max_z when there is none; so the result is in
\* [min_z, max_z] for min_z <= max_z.
C30_ZoomFitsOneSide ==
    ZoomCalled =>
        /\ \A i \in ZoomsTried :
               (FitsOneSide(i) /\ \A j \in ZoomsTried : j < i => ~FitsOneSide(j))
                   => last.ret = i
        /\ (\A i \in ZoomsTried : ~FitsOneSide(i)) => last.ret = last.max_zoom
        /\ ResultInRange

\* A zoom between the ends of the range is returned where one side fits and
\* the larger side does not.
C30_Witness ==
    /\ ZoomCalled
    /\ last.h # 0 /\ last.w # 0
    /\ last.min_zoom < last.ret /\ last.ret < last.max_zoom
    /\ FitsOneSide(last.ret) /\ ~FitsLargerSide(last.ret)

-----------------------------------------------------------------------------
(* bbox_by_tile and tile_by_bbox, one after the other *)

\* The zooms whose tile corners fall on whole degrees (and on MercLat).
RoundTripZooms == 0..2
RoundTripProjections == {"EPSG:4326", "EPSG:3857"}

\* from4326 of a latitude in EPSG:3857, shifted and normalised as
\* tile_by_coords does: 1 - point[1], in quarters of the pyramid's height.
merc_quarter(lat) == CHOOSE k \in 0..4 : MercLat[k + 1] = lat

\* tile_by_coords((lon, lat), zoom, srs): the fractional column times 360 and
\* the fractional row times 180.
tile_by_coords_in(lon, lat, zoom, srs) ==
    IF srs = "EPSG:4326" THEN tile_by_coords(lon, lat, zoom)
    ELSE <<(lon + 180) * (2 ^ zoom), merc_quarter(lat) * 45 * (2 ^ zoom)>>

\* A tile_by_bbox that returns the rows the other way round.
tile_by_bbox_in_rows_swapped(bbox, zoom, srs) ==
    LET a == tile_by_coords_in(bbox[1], bbox[2], zoom, srs)
        b == tile_by_coords_in(bbox[3], bbox[4], zoom, srs)
        b1 == IF b[1] < a[1] THEN b[1] + 180 * (2 ^ zoom) ELSE b[1]
    IN  <<a[1], b[2], b1, a[2]>>

\* tile_by_bbox(bbox, zoom, srs) -> a1, a2, b1, b2; "b1 += 2 ** (zoom - 1)" is
\* half the width of the pyramid.
tile_by_bbox_in(bbox, zoom, srs) ==
    LET a == tile_by_coords_in(bbox[1], bbox[2], zoom, srs)
        b == tile_by_coords_in(bbox[3], bbox[4], zoom, srs)
        b1 == IF b[1] < a[1] THEN b[1] + 180 * (2 ^ zoom) ELSE b[1]
    IN  <<a[1], a[2], b1, b[2]>>

InitRoundTrip ==
    /\ layer_id = "yamapng"
    /\ remote_url = Url("config", 0)
    /\ cache = [key \in Tiles |-> Absent]
    /\ now = 0
    /\ last = Idle
    /\ EngineIdle

\* coords_by_tile(z, x, y, srs) for a corner of the grid, and tile_by_coords
\* of the point it gave
CoordsByTileCall ==
    \E srs \in RoundTripProjections, z \in RoundTripZooms :
        \E x \in 0..(2 ^ z), y \in 0..(2 ^ z) :
            LET p == coords_by_tile(z, x, y, srs) IN
            /\ last' = [op |-> "coords_by_tile", srs |-> srs, z |-> z, x |-> x, y |-> y,
                        bbox |-> <<p[1], p[2], p[1], p[2]>>,
                        ret |-> tile_by_coords_in(p[1], p[2], z, srs)]
            /\ UNCHANGED <<layer_id, remote_url, cache, now, engine_vars>>

\* tile_by_bbox(bbox_by_tile(z, x, y, srs), z, srs) for a tile of the pyramid
RoundTripCall ==
    \E srs \in RoundTripProjections, z \in RoundTripZooms :
        \E x \in 0..(2 ^ z - 1), y \in 0..(2 ^ z - 1) :
            LET bbox == bbox_by_tile(z, x, y, srs) IN
            /\ last' = [op |-> "round_trip", srs |-> srs, z |-> z, x |-> x, y |-> y,
                        bbox |-> bbox, ret |-> tile_by_bbox_in(bbox, z, srs)]
            /\ UNCHANGED <<layer_id, remote_url, cache, now, engine_vars>>

NextRoundTrip == CoordsByTileCall \/ RoundTripCall

SpecRoundTrip == InitRoundTrip /\ [][NextRoundTrip]_vars

RoundTripped == last.op = "round_trip"

\* Columns and rows in the units of tile_by_coords_in.
Cols(n) == n * 360
Rows(n) == n * 180

-----------------------------------------------------------------------------
(* The order in which tile_image tries its sources *)

OwnKey == <<TheLayer.prefix, last.z, last.x, last.y>>

\* The call was for a tile of the pyramid inside the layer's extent, its
\* column written as the engine keeps it.
Accepted == TileImaged /\ last.log # <<>> /\ last.x = wrap_x(last.z, last.x)

RamHit == \E c \in last.env.ram : c.key = OwnKey

\* The conditions of the downscale step; TileImageCall asks with trybetter.
Downscalable == TheLayer.scalable /\ last.z < TheLayer.max_zoom

Looked(kind) == \E i \in DOMAIN last.log : last.log[i] = <<kind>> \o OwnKey

FromGlue == last.ret.some /\ last.ret.px.kind = "glue"
FromParent == last.ret.some /\ last.ret.px.kind = "quadrant"
FromUpstream == last.ret.some /\ last.ret.px.kind = "upstream"

\* A RAM hit is returned and nothing else is looked at.
RamHitEndsSearch ==
    RamHit => /\ last.ret = (CHOOSE c \in last.env.ram : c.key = OwnKey).im
              /\ last.log = <<(<<"ram">> \o OwnKey)>>

\* After a RAM miss the four children come first.
DownscaleBeforeFetcher ==
    (~RamHit /\ Downscalable /\ AllChildrenAvailable) => GlueReturned

\* A glued tile ends the search: the fetcher is not asked for the tile.
GlueEndsSearch == FromGlue => ~Looked("fetch")

\* The parent is asked only with real, and only after the fetcher gave nothing.
ParentLast ==
    /\ FromParent => last.real
    /\ FromUpstream => \A i \in DOMAIN last.log :
                            last.log[i][1] \in {"ram", "fetch"} => last.log[i][3] >= last.z

\* C32: tile_image tries, in this order, the in-memory cache, the downscale of
\* the four children (scalable layer, z < max_zoom, try_better), the layer's
\* fetcher (where the disk cache is consulted), the upscale of the parent
\* (only with real); the first source that yields a tile is returned and no
\* later one is consulted.
C32_AsStated ==
    Accepted => /\ RamHitEndsSearch
                /\ DownscaleBeforeFetcher
                /\ GlueEndsSearch
                /\ ParentLast

-----------------------------------------------------------------------------
(* What a render leaves in RAM *)

\* The handler went through getimg and has the picture it made.
Rendered == last.op = "handler" /\ last.img.kind = "map"

\* The grid of the render: getimg's zoom, from_tile_x, to_tile_y, to_tile_x,
\* from_tile_y, and the cell the loop was at in its i-th turn.
GridZoom == last.img.nums[1]
GridRows == last.img.nums[5] - last.img.nums[3] + 1
GridColumns == last.img.nums[4] - last.img.nums[2] + 1
CellX(i) == last.img.nums[2] + ((i - 1) \div GridRows)
CellY(i) == last.img.nums[3] + ((i - 1) % GridRows)

HeldInRam(key) == \E c \in cached_objs : c.key = key

\* The tiles a cell's picture was made of, by their keys: the tile itself and
\* the children or the parent that recursive calls fetched.
MadeOf(px) ==
    {<<px.prefix>> \o px.parts[j].nums :
        j \in {k \in DOMAIN px.parts : px.parts[k].kind = "upstream"}}

CellInRam(i) ==
    last.img.parts[i].kind # "empty_color"
        => HeldInRam(<<last.img.prefix, GridZoom, CellX(i), CellY(i)>>)

\* C33: every tile tile_image produced, in the render's own calls and in the
\* recursive ones, is in the in-memory cache under its key afterwards.
C33_AsStated ==
    Rendered => \A i \in DOMAIN last.img.parts :
                    /\ CellInRam(i)
                    /\ \A key \in MadeOf(last.img.parts[i]) : HeldInRam(key)

-----------------------------------------------------------------------------
(* The RAM cache under one thread: size and eviction order *)

InHistory(key) == \E i \in DOMAIN cached_hist_list : cached_hist_list[i] = key

\* The tile map never holds more than max_ram_cached_tiles tiles.
RamBounded == Cardinality(cached_objs) <= max_ram_cached_tiles

\* The history lists the tiles of the map, each once, oldest first: a key
\* missing from it is one a thread has inserted and not yet appended, or has
\* popped and not yet deleted.
HistoryIsInsertionOrder ==
    /\ \A i, j \in DOMAIN cached_hist_list :
           cached_hist_list[i] = cached_hist_list[j] => i = j
    /\ \A i \in DOMAIN cached_hist_list : InRam(cached_hist_list[i])
    /\ \A c \in cached_objs :
           \/ InHistory(c.key)
           \/ \E t \in Threads : /\ threads[t].pc = "append" /\ threads[t].key = c.key
           \/ \E t \in Threads : /\ threads[t].pc = "del" /\ threads[t].popped = c.key

\* Thread t is about to delete the entry it popped.
Evicting(t) == threads[t].pc = "del"

\* The entry being evicted is older than every entry that stays: it is in the
\* map, every other entry is still in the history, and it is not the tile the
\* request has just inserted unless that is the only one.
EvictsEarliest ==
    \A t \in Threads :
        Evicting(t) =>
            /\ InRam(threads[t].popped)
            /\ ~InHistory(threads[t].popped)
            /\ \A c \in cached_objs : c.key # threads[t].popped => InHistory(c.key)
            /\ threads[t].popped = threads[t].key => Cardinality(cached_objs) = 1

\* A request answered from the map inserts nothing and appends nothing:
\* only a tile that came from the fetcher is inserted.
HitKeepsOrder ==
    \A t \in Threads :
        threads[t].pc \in {"insert", "append"} => threads[t].served_by # ""

\* C34: with one thread rendering, the in-memory cache never holds more than
\* max_ram_cached_tiles tiles, an evicted entry is the one inserted earliest
\* among those present, and a cache hit does not change an entry's place in
\* the eviction order.
C34_FifoEviction ==
    (Threaded /\ OneThreadOnly) =>
        /\ RamBounded
        /\ HistoryIsInsertionOrder
        /\ EvictsEarliest
        /\ HitKeepsOrder

\* One thread has inserted a second tile and is deleting the first.
C34_Witness ==
    /\ Threaded /\ OneThreadOnly
    /\ \E t \in Threads :
           /\ Evicting(t)
           /\ threads[t].served = 1
           /\ threads[t].popped # threads[t].key
           /\ Cardinality(cached_objs) = max_ram_cached_tiles

-----------------------------------------------------------------------------
(* The order in which a render asks for its tiles *)

\* A render of one layer: the log is that of one getimg.
RenderedOneLayer == Rendered /\ Len(last.data.layers) = 1

\* The lookups of the log that open a tile_image call of the loop: tile_image
\* looks into the RAM cache first, and the recursive calls are at other zooms.
OpensCell(e) == e[1] = "ram" /\ e[2] = last.img.prefix /\ e[3] = GridZoom

\* The cells in the order the loop asked for them, as <<x, y>>.
Requested ==
    LET opens == SelectSeq(last.log, OpensCell)
    IN  [i \in DOMAIN opens |-> <<opens[i][4], opens[i][5]>>]

\* A render whose every cell left its lookup in the log: a cell outside the
\* pyramid leaves none, and a column past the last one is logged as the
\* column it wraps to.
EveryCellLogged ==
    /\ RenderedOneLayer
    /\ Len(Requested) = GridRows * GridColumns
    /\ {Requested[i] : i \in DOMAIN Requested}
           = (last.img.nums[2] .. last.img.nums[4]) \X (last.img.nums[3] .. last.img.nums[5])

\* Cell a comes before cell b when the grid is read row by row.
RowMajorBefore(a, b) == a[2] < b[2] \/ (a[2] = b[2] /\ a[1] < b[1])

\* Cell a comes before cell b when the grid is read column by column.
ColumnMajorBefore(a, b) == a[1] < b[1] \/ (a[1] = b[1] /\ a[2] < b[2])

\* C35: within one render the tiles are asked for in row-major order, all
\* tiles of a row (fixed y, x increasing) before any tile of the next row.
C35_AsStated ==
    EveryCellLogged =>
        \A i, j \in DOMAIN Requested :
            i < j => RowMajorBefore(Requested[i], Requested[j])

\* What the loop of getimg does instead: x is the outer variable, so all
\* tiles of a column are asked for before any tile of the next column.
ColumnMajorOrder ==
    EveryCellLogged =>
        \A i, j \in DOMAIN Requested :
            i < j => ColumnMajorBefore(Requested[i], Requested[j])

-----------------------------------------------------------------------------
(* The canvas of a render and what is painted on it *)

\* The size of the canvas of the render and the offset of its i-th paste.
Canvas == <<last.img.nums[8], last.img.nums[9]>>
PastedAt(i) == <<last.img.nums[8 + 2 * i], last.img.nums[9 + 2 * i]>>

\* The offsets of the cells of the grid: one for each column and row.
CellOffsets ==
    {<<256 * c, 256 * r>> : c \in 0 .. GridColumns - 1, r \in 0 .. GridRows - 1}

\* A cell is painted with the picture of a tile or with the empty colour of
\* the render's layer.
PaintedEmpty(i) ==
    /\ last.img.parts[i].kind = "empty_color"
    /\ last.img.parts[i].prefix = last.img.prefix

\* A handler call that went into getimg for a layer of the table ended with an
\* exception.
RenderAborted ==
    /\ last.op = "handler"
    /\ last.resp.kind = "raise"
    /\ last.resp.exc # "KeyError"

\* A tile file of the cache directory the call started on is cut short.
CutShortBefore == \E f \in last.pre.files : ~f.content.whole

-----------------------------------------------------------------------------
(* tms_google_sat: when the version is discovered and when it is forgotten *)

\* The most recent call was a fetch of a layer whose worker is tms_google_sat.
GoogleFetched == Fetched /\ layer.fetch = "tms_google_sat"

\* The call asked maps.googleapis.com for the version.
Discovered == last.disc # NoCall

\* The template the call had when it went on to tms: the one it started with,
\* or the one built from the version it found.
TemplateAfterDiscovery ==
    IF last.url # NoUrl THEN last.url
    ELSE IF last.disc.kind = "return" /\ re_search(last.disc.body).match
    THEN Url("google", re_search(last.disc.body).group1)
    ELSE NoUrl

DiscoveredAndKept ==
    /\ GoogleFetched
    /\ last.url = NoUrl /\ Discovered
    /\ last.ret.kind = "image"
    /\ remote_url.kind = "google"

\* A call that returned the cached image without a template: the discovery
\* failed, and the next call asks again.
ImageWithoutTemplate ==
    /\ GoogleFetched
    /\ last.ret.kind = "image"
    /\ remote_url = NoUrl

-----------------------------------------------------------------------------
(* The worker pool of one TileFetcher: request threads that call fetch, and *)
(* the tms_google_sat jobs they submit, interleaved at every access to the  *)
(* shared self.layer (threads holds the record of each caller and its job,  *)
(* fetchers_pool the work queue of the pool, remote_url the template).       *)

\* config.dl_threads_per_layer, the max_workers of the pool (5 in config.py).
dl_threads_per_layer == 2

\* The request threads: one more than the pool has workers.
Callers == 1 .. dl_threads_per_layer + 1

\* A caller and its job: where it is, the image tms gave ("" before), the
\* exception that left the worker, and whether the job was submitted while
\* every worker was busy.
Job(pc, im, exc, waited) == [pc |-> pc, im |-> im, exc |-> exc, waited |-> waited]

work_queue == fetchers_pool

\* The jobs a worker is running.
OnWorker(j) == threads[j].pc \notin {"idle", "queued"}
Running == {j \in Callers : OnWorker(j)}

JobGoto(j, pc) == threads' = [threads EXCEPT ![j].pc = pc]
JobRaise(j, exc) == threads' = [threads EXCEPT ![j].pc = "raised", ![j].exc = exc]
JobFrame == UNCHANGED <<layer_id, cache, now, last, tiles_cache, cached_objs,
                        cached_hist_list, file_blocks>>

InitJobs ==
    /\ layer_id = "sat"
    /\ remote_url = Url("config", 0)
    /\ cache = [key \in Tiles |-> Absent]
    /\ now = 0
    /\ last = Idle
    /\ tiles_cache = [files |-> {}, dirs |-> {}]
    /\ cached_objs = {}
    /\ cached_hist_list = <<>>
    /\ fetchers_pool = <<>>
    /\ threads = [j \in Callers |-> Job("idle", "", "", FALSE)]
    /\ file_blocks = NoBlocks

\* fetch: self.thread_pool.submit(self.__worker, z, x, y); the caller then
\* blocks in result().
Submit(j) ==
    /\ threads[j].pc = "idle"
    /\ threads' = [threads EXCEPT
                      ![j] = Job("queued", "", "",
                                 Cardinality(Running) = dl_threads_per_layer)]
    /\ fetchers_pool' = Append(work_queue, j)
    /\ UNCHANGED remote_url
    /\ JobFrame

\* A worker that is free takes the oldest item of the queue.
Take(j) ==
    /\ work_queue # <<>>
    /\ Head(work_queue) = j
    /\ Cardinality(Running) < dl_threads_per_layer
    /\ fetchers_pool' = Tail(work_queue)
    /\ JobGoto(j, "start")
    /\ UNCHANGED remote_url
    /\ JobFrame

\* tms_google_sat: if "remote_url" not in self.layer
CheckAbsent(j) ==
    /\ threads[j].pc = "start"
    /\ JobGoto(j, IF remote_url = NoUrl THEN "discover" ELSE "tms")
    /\ UNCHANGED <<remote_url, fetchers_pool>>
    /\ JobFrame

\* The discovery request and what follows it: the version is found and the
\* template set, the pattern is not in the answer (ValueError), or the request
\* fails (URLError, passed over).
Discover(j) ==
    /\ threads[j].pc = "discover"
    /\ \/ \E v \in 1 .. MaxVersion :
              /\ remote_url' = Url("google", v)
              /\ JobGoto(j, "log")
       \/ /\ JobRaise(j, "ValueError")
          /\ UNCHANGED remote_url
       \/ /\ JobGoto(j, "tms")
          /\ UNCHANGED remote_url
    /\ UNCHANGED fetchers_pool
    /\ JobFrame

\* config.DefaultDict.__getitem__("remote_url"): the template, or KeyError
\* from __missing__, layer_defaults having no remote_url.
getitem_remote_url(j, pc) ==
    IF remote_url = NoUrl THEN JobRaise(j, "KeyError") ELSE JobGoto(j, pc)

\* logger.info(f"Setting new ... URI {self.layer['remote_url']}")
LogTemplate(j) ==
    /\ threads[j].pc = "log"
    /\ getitem_remote_url(j, "tms")
    /\ UNCHANGED <<remote_url, fetchers_pool>>
    /\ JobFrame

\* A worker that would hand tms to the pool it runs on and wait for it: it
\* goes on only when another worker is free.
TmsCheck_on_own_pool(j) ==
    /\ threads[j].pc = "tms"
    /\ Cardinality(Running) < dl_threads_per_layer
    /\ \/ /\ remote_url # NoUrl
          /\ JobGoto(j, "use")
       \/ \E im \in {"image", "None"} :
              threads' = [threads EXCEPT ![j].pc = "check", ![j].im = im]
    /\ UNCHANGED <<remote_url, fetchers_pool>>
    /\ JobFrame

\* tms_google_sat: im = self.tms(z, x, y), called on the worker itself.  tms:
\* if "remote_url" in self.layer and tile.needs_fetch(); otherwise the cached
\* image or None.
TmsCheck(j) ==
    /\ threads[j].pc = "tms"
    /\ \/ /\ remote_url # NoUrl
          /\ JobGoto(j, "use")
       \/ \E im \in {"image", "None"} :
              threads' = [threads EXCEPT ![j].pc = "check", ![j].im = im]
    /\ UNCHANGED <<remote_url, fetchers_pool>>
    /\ JobFrame

\* tms: remote = self.layer["remote_url"].replace(...), the request and its
\* outcome: an image, None, or an exception tms does not catch.
TmsUse(j) ==
    /\ threads[j].pc = "use"
    /\ IF remote_url = NoUrl
       THEN getitem_remote_url(j, "check")
       ELSE \/ \E im \in {"image", "None"} :
                   threads' = [threads EXCEPT ![j].pc = "check", ![j].im = im]
            \/ JobRaise(j, "OSError")
    /\ UNCHANGED <<remote_url, fetchers_pool>>
    /\ JobFrame

\* tms_google_sat: if "remote_url" in self.layer and not im
CheckPresent(j) ==
    /\ threads[j].pc = "check"
    /\ JobGoto(j, IF remote_url # NoUrl /\ threads[j].im = "None" THEN "del" ELSE "done")
    /\ UNCHANGED <<remote_url, fetchers_pool>>
    /\ JobFrame

\* del self.layer["remote_url"]: KeyError when the key is not in the dict.
DelTemplate(j) ==
    /\ threads[j].pc = "del"
    /\ IF remote_url = NoUrl
       THEN /\ JobRaise(j, "KeyError")
            /\ UNCHANGED remote_url
       ELSE /\ JobGoto(j, "done")
            /\ remote_url' = NoUrl
    /\ UNCHANGED fetchers_pool
    /\ JobFrame

\* The worker is done with the job and free again; result() hands the image or
\* the exception to the caller.
Finish(j) ==
    /\ threads[j].pc \in {"done", "raised"}
    /\ threads' = [threads EXCEPT ![j].pc = "idle"]
    /\ UNCHANGED <<remote_url, fetchers_pool>>
    /\ JobFrame

\* What the pool and its workers do for caller j.
JobStep(j) ==
    \/ Take(j)
    \/ CheckAbsent(j)
    \/ Discover(j)
    \/ LogTemplate(j)
    \/ TmsCheck(j)
    \/ TmsUse(j)
    \/ CheckPresent(j)
    \/ DelTemplate(j)
    \/ Finish(j)

NextJobs == \E j \in Callers : Submit(j) \/ JobStep(j)

SpecJobs == InitJobs /\ [][NextJobs]_vars

\* Threads are scheduled fairly and every upstream request answers or fails:
\* a step of the pool or of a worker that stays possible is taken.
SpecJobsFair == SpecJobs /\ \A j \in Callers : WF_vars(JobStep(j))

\* C38: concurrent tms_google_sat jobs of one layer never fail because another
\* job removed remote_url between a job's test for it and the job's reading or
\* deleting it: no job ends in KeyError.
C38_AsStated == \A j \in Callers : ~(threads[j].pc = "raised" /\ threads[j].exc = "KeyError")

\* A caller is inside fetch: its job is queued or on a worker.
InFetch(j) == threads[j].pc # "idle"

\* C40: every fetch call returns in the end, with more fetches pending than
\* the pool has workers as well: a job on a worker never waits for the pool,
\* and a queued job runs once a worker is free.
C40_EveryFetchReturns == \A j \in Callers : InFetch(j) ~> ~InFetch(j)

\* A fetch that was submitted while every worker was busy has returned.
C40_Witness ==
    \E j \in Callers :
        /\ threads[j].pc = "idle"
        /\ threads[j].waited
        /\ Cardinality(Running) = dl_threads_per_layer
        /\ work_queue = <<>>

-----------------------------------------------------------------------------
(* The recursion of tile_image: how far a call goes down and up the pyramid *)

\* Calls tried one after the other in a behaviour, at most.
MaxCallsTried == 1

\* The calls: tiles of the deep layer at every zoom argument from 0 to one
\* past its max_zoom, with or without trybetter and real.
DepthCalls ==
    {<<"deep", z, x, y>> : z \in 0 .. DeepMaxZoom + 1, x \in {0, 1, 2}, y \in {0, 1}}

\* Cache directories of the deep layer: empty, and one holding a tile of zoom
\* 2, the tne mark of another and the glued file of a third.
DepthDisks ==
    {{},
     {File(Path("deep", 1, 0, 0, "ext"), PngA, 0),
      File(Path("deep", 1, 1, 1, "tne"), EmptyBytes, 0),
      File(Path("deep", 1, 0, 1, "ups.ext"), PngA, 0)}}

InitDepth ==
    /\ layer_id = "yamapng"
    /\ remote_url = Url("config", 0)
    /\ cache = [key \in Tiles |-> Absent]
    /\ now = 0
    /\ last = Idle
    /\ tiles_cache \in {[files |-> fs, dirs |-> {}] : fs \in DepthDisks}
    /\ cached_objs = {}
    /\ cached_hist_list = <<>>
    /\ fetchers_pool = ""
    /\ threads = NoThreads
    /\ file_blocks = NoBlocks

CallsTried == IF last.op = "tile_image" THEN last.n ELSE 0

\* tile_image(layer, z, x, y, start_time, trybetter=..., real=...)
DepthCall ==
    /\ CallsTried < MaxCallsTried
    /\ \E c \in DepthCalls, trybetter \in BOOLEAN, real \in BOOLEAN, upstream \in Upstreams :
       \E r \in {tile_image(Env(upstream), tiles_cache, conf_layers[c[1]],
                            c[2], c[3], c[4], FALSE, trybetter, real)} :
           /\ tiles_cache' = r.D
           /\ fetchers_pool' = conf_layers[c[1]].prefix
           /\ last' = [op |-> "tile_image", layer |-> c[1], z |-> c[2], x |-> c[3],
                       y |-> c[4], real |-> real, trybetter |-> trybetter,
                       env |-> Env(upstream), pre |-> tiles_cache,
                       ret |-> r.ret, log |-> r.log, n |-> CallsTried + 1]
           /\ UNCHANGED <<layer_id, remote_url, cache, now, cached_objs, cached_hist_list,
                          threads, file_blocks>>

NextDepth == DepthCall

SpecDepth == InitDepth /\ [][NextDepth]_vars

\* The tile_image calls that a call made, itself included, in order: each
\* opens with its lookup in the RAM cache.
Opened == SelectSeq(last.log, LAMBDA e : e[1] = "ram")

\* Entry e opens a call for a tile that lies under the requested tile, k zooms
\* down, or for the tile that lies over it, k zooms up.
Under(e, k) ==
    /\ e[3] = last.z + k
    /\ e[4] \div (2 ^ k) = last.x
    /\ e[5] \div (2 ^ k) = last.y
Over(e, k) ==
    /\ e[3] = last.z - k
    /\ e[4] = last.x \div (2 ^ k)
    /\ e[5] = last.y \div (2 ^ k)

\* How many zooms the call went down and up.
WentDown == {Opened[i][3] - last.z : i \in {j \in DOMAIN Opened : Opened[j][3] > last.z}}
WentUp == {last.z - Opened[i][3] : i \in {j \in DOMAIN Opened : Opened[j][3] < last.z}}

\* Every call made is for the requested tile (the first), for a tile under it
\* or for a tile over it, and no tile is asked for twice: no call under the
\* tile went up again, and no call over it went down again.
NoAlternation ==
    /\ \A i \in DOMAIN Opened :
           \/ i = 1
           \/ \E k \in WentDown : Under(Opened[i], k)
           \/ \E k \in WentUp : Over(Opened[i], k)
    /\ \A i, j \in DOMAIN Opened : Opened[i] = Opened[j] => i = j

\* C39: a tile_image call ends, and its recursion goes down only through
\* children that never go up, as far as max_zoom, and up only through parents
\* that never go down, as far as the lowest zoom; no request alternates
\* between the two, all calls down come before any call up, and the depth is
\* at most max(max_zoom - z, z).  (Below zoom 1 the pyramid has no columns to
\* tell apart; the tiles asked for are compared from zoom 1 on.)
C39_RecursionBounded ==
    Accepted =>
        /\ Opened[1] = <<"ram">> \o OwnKey
        /\ last.z >= 1 => NoAlternation
        /\ \A i, j \in DOMAIN Opened :
               (Opened[i][3] < last.z /\ Opened[j][3] > last.z) => j < i
        /\ WentDown # {} => last.trybetter /\ TheLayer.scalable
        /\ WentUp # {} => last.real
        /\ \A k \in WentDown : last.z + k <= TheLayer.max_zoom
        /\ \A k \in WentUp : last.z - k >= 1
        /\ \A k \in WentDown \cup WentUp :
               k <= Larger(TheLayer.max_zoom - last.z, last.z)

\* A call that went down a zoom, got no glued tile there, and went up a zoom
\* for the tile it returned.
C39_Witness ==
    /\ Accepted
    /\ WentDown # {}
    /\ WentUp # {}
    /\ FromParent

\* Calls that went as deep as the pyramid of the layer allows.
WentDownTwo == Accepted /\ 2 \in WentDown
WentUpTwo == Accepted /\ 2 \in WentUp /\ FromParent

====
